---- MODULE Spec2Model ----
(***************************************************************************)
(* Parking-Zones: the submission-to-dataset reconciliation engine.         *)
(*                                                                         *)
(* processSubmission and processUpdate (scripts/process-submission.mjs,    *)
(* the variant with branch targeting and zone updates) run as GitHub       *)
(* Actions jobs, one per issue, against one repository.  Every `await`     *)
(* of a GitHub API call that touches the repository is one step.           *)
(*                                                                         *)
(* Units.  A coordinate is an integer number of 1e-4 degrees, so 0.05      *)
(* degrees (the bbox padding) is 500 and one decimal place is 1000.        *)
(* A distance is an integer number of centimetres.  A blob sha is the      *)
(* content it hashes: two files have the same sha iff they are equal.      *)
(* lastUpdated (a wall-clock stamp) is left out of the shard and of the    *)
(* manifest: every write of a shard changes a record, so content           *)
(* identity still tells every two versions of a file apart.                *)
(***************************************************************************)
EXTENDS Integers, Sequences, FiniteSets, TLC

\* ------------------------------------------------------------------ bounds
\* Issues opened against the repository (one workflow run each).
MaxIssues == 3
\* Records of the region handed to a call of findDuplicate on its own.
MaxStored == 3
\* The issues opened while API calls may be rejected.
MaxFaultyIssues == 2
\* The longest name, in pieces, given to nameSimilarity on its own.
MaxPieces == 3

\* ------------------------------------------------------- program constants
GEOHASH_PRECISION == 6
DEFAULT_BRANCH == "dev"
\* 90 and 180 degrees in units of 1e-4 degree.
LatMax == 900000
LngMax == 1800000
\* Every bisection midpoint of 15 halvings of [-90, 90] and of [-180, 180]
\* is an integer once a coordinate is multiplied by 512.
GeoScale == 512
\* One unit of latitude (1e-4 degree) along a meridian, in centimetres:
\* R * pi / 180 * 1e-4 with R = 6 371 000 m is 11.1195 m.
CmPerUnit == 1112
\* 50 m and 20 m in centimetres.
NameDupCm == 5000
LocDupCm == 2000
\* 0.05 degree of padding, and one decimal place, in units of 1e-4 degree.
BboxPad == 500
BboxStep == 1000

BASE32_CODES ==
  << "0", "1", "2", "3", "4", "5", "6", "7", "8", "9", "b", "c", "d", "e",
     "f", "g", "h", "j", "k", "m", "n", "p", "q", "r", "s", "t", "u", "v",
     "w", "x", "y", "z" >>

EnforcementType ==
  { "government", "private", "council", "hospital", "university", "airport",
    "shopping_centre", "residential", "other" }

EnforcementMethod ==
  { "camera_anpr", "physical_warden", "ticket_machine", "pay_and_display",
    "barrier", "clamp", "tow", "mixed", "unknown" }

\* ------------------------------------------------------------ small helpers
Abs(x) == IF x < 0 THEN 0 - x ELSE x
Max(a, b) == IF a > b THEN a ELSE b
Has(obj, k) == k \in DOMAIN obj
\* { ...a, ...b }: b's keys win.
Spread(a, b) ==
  [k \in (DOMAIN a) \cup (DOMAIN b) |-> IF k \in DOMAIN b THEN b[k] ELSE a[k]]
\* An object without the keys of ks.
Omit(obj, ks) == [k \in (DOMAIN obj) \ ks |-> obj[k]]
Pick(obj, ks) == [k \in (DOMAIN obj) \cap ks |-> obj[k]]

RECURSIVE ISqrtIn(_, _, _)
\* The largest r in lo..hi with r * r <= n, by bisection.
ISqrtIn(n, lo, hi) ==
  IF lo = hi THEN lo
  ELSE LET mid == (lo + hi + 1) \div 2
       IN IF mid * mid <= n THEN ISqrtIn(n, mid, hi) ELSE ISqrtIn(n, lo, mid - 1)
\* floor(sqrt(n)) for 0 <= n < 2^30.
ISqrt(n) == ISqrtIn(n, 0, 32767)

\* ---------------------------------------------------------------- geohash
\* ngeohash.encode: bits alternate longitude, latitude, starting with
\* longitude; a bit is 1 iff the coordinate is strictly above the midpoint.
RECURSIVE GeohashBits(_, _, _, _, _, _, _, _, _, _)
GeohashBits(lat, lng, minLat, maxLat, minLon, maxLon, bitsTotal, bits, hash_value, chars) ==
  IF Len(chars) = GEOHASH_PRECISION THEN chars
  ELSE
    LET even == bitsTotal % 2 = 0
        mid == IF even THEN (maxLon + minLon) \div 2 ELSE (maxLat + minLat) \div 2
        up == IF even THEN lng > mid ELSE lat > mid
        hv == 2 * hash_value + (IF up THEN 1 ELSE 0)
        full == bits + 1 = 5
    IN GeohashBits(lat, lng,
         IF ~even /\ up THEN mid ELSE minLat,
         IF ~even /\ ~up THEN mid ELSE maxLat,
         IF even /\ up THEN mid ELSE minLon,
         IF even /\ ~up THEN mid ELSE maxLon,
         bitsTotal + 1,
         IF full THEN 0 ELSE bits + 1,
         IF full THEN 0 ELSE hv,
         IF full THEN Append(chars, BASE32_CODES[hv + 1]) ELSE chars)

geohashEncode(lat, lng) ==
  GeohashBits(lat * GeoScale, lng * GeoScale,
              (0 - LatMax) * GeoScale, LatMax * GeoScale,
              (0 - LngMax) * GeoScale, LngMax * GeoScale,
              0, 0, 0, << >>)

\* ------------------------------------------------------ distance and names
\* Haversine distance, in centimetres rounded down.  The model's centres
\* lie within a few units of the equator, where cos(lat) is 1 to nine
\* places and the great circle is the chord of the flat grid.
distanceMeters(a, b) ==
  LET dLat == b.lat - a.lat
      dLng == b.lng - a.lng
  IN ISqrt((dLat * dLat + dLng * dLng) * CmPerUnit * CmPerUnit)

\* Lines 18-19 without toLowerCase.
toLowerCaseIdentity(w) == w

\* A name is its sequence of pieces between whitespace; " " is a piece of
\* whitespace only.  toLowerCase over the model's vocabulary.
toLowerCase(w) ==
  CASE w = "Car" -> "car"
    [] w = "CAR" -> "car"
    [] w = "Park" -> "park"
    [] w = "A" -> "a"
    [] w = "B" -> "b"
    [] OTHER -> w

\* a.toLowerCase().split(/\s+/).filter(Boolean), as a set.
Tokens(name) ==
  { toLowerCase(name[i]) : i \in { j \in 1..Len(name) : name[j] # " " } }

\* nameSimilarity(a, b) as the pair <<numerator, denominator>>.
nameSimilarity(a, b) ==
  LET tokensA == Tokens(a)
      tokensB == Tokens(b)
      intersection == Cardinality({ t \in tokensA : t \in tokensB })
      union == Cardinality(tokensA) + Cardinality(tokensB) - intersection
  IN IF tokensA = {} /\ tokensB = {} THEN << 1, 1 >>
     ELSE IF tokensA = {} \/ tokensB = {} THEN << 0, 1 >>
     ELSE IF union = 0 THEN << 0, 1 >>
     ELSE << intersection, union >>

\* -------------------------------------------------------------- the shard
\* zones is a JavaScript object: its keys in insertion order.
NoZone == [none |-> TRUE]
HasKey(zones, k) == \E i \in 1..Len(zones) : zones[i].key = k
KeyIndex(zones, k) == CHOOSE i \in 1..Len(zones) : zones[i].key = k
Bucket(zones, k) == zones[KeyIndex(zones, k)].bucket

RECURSIVE Flatten(_)
\* Every record of the shard in scan order: buckets in enumeration order,
\* records in bucket order.
Flatten(zones) ==
  IF zones = << >> THEN << >> ELSE Head(zones).bucket \o Flatten(Tail(zones))

RECURSIVE TotalCount(_)
TotalCount(zones) ==
  IF zones = << >> THEN 0 ELSE Len(Head(zones).bucket) + TotalCount(Tail(zones))

\* Lines 61-67 alone: the name-based test without the location-only one.
IsDuplicateOfNameOnly(candidate, zone) ==
  LET sim == nameSimilarity(candidate.name, zone.name)
  IN /\ distanceMeters(candidate.center, zone.center) <= NameDupCm
     /\ 10 * sim[1] >= 6 * sim[2]

\* The duplicate test of one existing zone, lines 61-74.
IsDuplicateOf(candidate, zone) ==
  LET dist == distanceMeters(candidate.center, zone.center)
      sim == nameSimilarity(candidate.name, zone.name)
      maxRadius == Max(candidate.radius, zone.radius)
      radiusDiff == Abs(candidate.radius - zone.radius)
  IN \/ dist <= NameDupCm /\ 10 * sim[1] >= 6 * sim[2]
     \/ dist <= LocDupCm /\ maxRadius > 0 /\ 10 * radiusDiff <= 3 * maxRadius

RECURSIVE ScanBucket(_, _)
ScanBucket(candidate, bucket) ==
  IF bucket = << >> THEN NoZone
  ELSE IF IsDuplicateOf(candidate, Head(bucket)) THEN Head(bucket)
  ELSE ScanBucket(candidate, Tail(bucket))

RECURSIVE findDuplicate(_, _)
findDuplicate(candidate, existingZones) ==
  IF existingZones = << >> THEN NoZone
  ELSE LET hit == ScanBucket(candidate, Head(existingZones).bucket)
       IN IF hit # NoZone THEN hit
          ELSE findDuplicate(candidate, Tail(existingZones))

\* ------------------------------------------------------------- the schema
\* The keys of ParkingZone.omit({ id, verified, version }).  A z.object
\* strips every other key of its input.
SubmissionKeys ==
  { "name", "description", "center", "radius", "polygon", "enforcementType",
    "enforcementMethod", "enforcementCompany", "legislationCode", "freeMinutes",
    "maxStayMinutes", "chargePerHour", "currency", "operatingHours",
    "noReturnMinutes", "reparkingTips", "country", "region", "city" }
\* Keys a submitter must supply: neither .optional() nor .default().
RequiredKeys ==
  { "name", "center", "radius", "enforcementType", "enforcementMethod",
    "country", "region" }
\* The schema's keys in declaration order: the order of the issue list.
FieldOrder ==
  << "name", "center", "radius", "enforcementType", "enforcementMethod",
     "freeMinutes", "currency", "country", "region" >>

\* LatLng: the issues of a center object, as paths.
LatLngIssues(c) ==
  (IF ~Has(c, "lat") \/ (Has(c, "lat") /\ (c.lat < 0 - LatMax \/ c.lat > LatMax))
     THEN << << "center", "lat" >> >> ELSE << >>)
  \o (IF ~Has(c, "lng") \/ (Has(c, "lng") /\ (c.lng < 0 - LngMax \/ c.lng > LngMax))
     THEN << << "center", "lng" >> >> ELSE << >>)

\* Lines 45-62 with line 48 reading radius: z.number().nonnegative().
ValueIssuesRadiusFromZero(k, v) ==
  CASE k = "name" -> IF Len(v) >= 1 THEN << >> ELSE << << k >> >>
    [] k = "center" -> LatLngIssues(v)
    [] k = "radius" -> IF v >= 0 THEN << >> ELSE << << k >> >>
    [] k = "enforcementType" -> IF v \in EnforcementType THEN << >> ELSE << << k >> >>
    [] k = "enforcementMethod" -> IF v \in EnforcementMethod THEN << >> ELSE << << k >> >>
    [] k = "freeMinutes" -> IF v >= 0 THEN << >> ELSE << << k >> >>
    [] k = "currency" -> IF Len(v) = 3 THEN << >> ELSE << << k >> >>
    [] k = "country" -> IF Len(v) >= 2 /\ Len(v) <= 2 THEN << >> ELSE << << k >> >>
    [] k = "region" -> IF Len(v) >= 1 THEN << >> ELSE << << k >> >>
    [] OTHER -> << >>

\* The issues of one present field, by the schema's checks (lines 45-62).
ValueIssues(k, v) ==
  CASE k = "name" -> IF Len(v) >= 1 THEN << >> ELSE << << k >> >>
    [] k = "center" -> LatLngIssues(v)
    [] k = "radius" -> IF v > 0 THEN << >> ELSE << << k >> >>
    [] k = "enforcementType" -> IF v \in EnforcementType THEN << >> ELSE << << k >> >>
    [] k = "enforcementMethod" -> IF v \in EnforcementMethod THEN << >> ELSE << << k >> >>
    [] k = "freeMinutes" -> IF v >= 0 THEN << >> ELSE << << k >> >>
    [] k = "currency" -> IF Len(v) = 3 THEN << >> ELSE << << k >> >>
    [] k = "country" -> IF Len(v) >= 2 /\ Len(v) <= 2 THEN << >> ELSE << << k >> >>
    [] k = "region" -> IF Len(v) >= 1 THEN << >> ELSE << << k >> >>
    [] OTHER -> << >>

\* One field of an object schema: a missing key is an issue only where the
\* schema requires the key.
FieldIssues(obj, k, required) ==
  IF Has(obj, k) THEN ValueIssues(k, obj[k])
  ELSE IF required /\ k \in RequiredKeys THEN << << k >> >> ELSE << >>

RECURSIVE ObjectIssuesFirstOnly(_, _, _)
\* An object schema that aborts at the first key with an issue.
ObjectIssuesFirstOnly(obj, keys, required) ==
  IF keys = << >> THEN << >>
  ELSE LET here == FieldIssues(obj, Head(keys), required)
       IN IF here # << >> THEN << Head(here) >>
          ELSE ObjectIssuesFirstOnly(obj, Tail(keys), required)

RECURSIVE ObjectIssues(_, _, _)
\* z.object parses every key and collects the issues of all of them.
ObjectIssues(obj, keys, required) ==
  IF keys = << >> THEN << >>
  ELSE FieldIssues(obj, Head(keys), required) \o ObjectIssues(obj, Tail(keys), required)

\* An object schema that passes unknown keys through.
StripNothing(obj) == obj

\* The parsed value: unknown keys stripped (also inside center).
Strip(obj) ==
  LET kept == Pick(obj, SubmissionKeys)
  IN IF Has(kept, "center")
       THEN [kept EXCEPT !["center"] = Pick(kept["center"], { "lat", "lng" })]
       ELSE kept

\* ParkingZoneSubmission.safeParse(zoneData): defaults fill absent keys.
ParkingZoneSubmission(zoneData) ==
  LET issues == ObjectIssues(zoneData, FieldOrder, TRUE)
  IN IF issues # << >> THEN [success |-> FALSE, issues |-> issues]
     ELSE [success |-> TRUE,
           data |-> Spread([freeMinutes |-> 0, currency |-> "GBP"], Strip(zoneData))]

\* ZoneUpdatePayload with the defaults of lines 54 and 57 filled into
\* changes, as they are into a submission.
ZoneUpdatePayloadWithDefaults(updateData) ==
  LET idIssues ==
        IF Has(updateData, "zoneId") /\ updateData.zoneId # << >> THEN << >>
        ELSE << << "zoneId" >> >>
      chIssues ==
        IF ~Has(updateData, "changes") THEN << << "changes" >> >>
        ELSE ObjectIssues(updateData.changes, FieldOrder, FALSE)
      issues == idIssues \o chIssues
  IN IF issues # << >> THEN [success |-> FALSE, issues |-> issues]
     ELSE [success |-> TRUE,
           data |-> [zoneId |-> updateData.zoneId,
                     changes |-> Spread([freeMinutes |-> 0, currency |-> "GBP"],
                                        Strip(updateData.changes))]]

\* ZoneUpdatePayload.safeParse(updateData): changes is the partial schema,
\* so an absent key is no issue and gets no default.
ZoneUpdatePayload(updateData) ==
  LET idIssues ==
        IF Has(updateData, "zoneId") /\ updateData.zoneId # << >> THEN << >>
        ELSE << << "zoneId" >> >>
      chIssues ==
        IF ~Has(updateData, "changes") THEN << << "changes" >> >>
        ELSE ObjectIssues(updateData.changes, FieldOrder, FALSE)
      issues == idIssues \o chIssues
  IN IF issues # << >> THEN [success |-> FALSE, issues |-> issues]
     ELSE [success |-> TRUE,
           data |-> [zoneId |-> updateData.zoneId,
                     changes |-> Strip(updateData.changes)]]

\* generateZoneId: `cdn-${country}-${region}-${uuid}`.
generateZoneId(country, region, uuid) == << "cdn", country, region, uuid >>

\* Lines 257-262 without lines 260-261: only the id is assigned.
fullZoneIdOnly(zone, zoneId) == Spread(zone, [id |-> zoneId])

\* fullZone, lines 257-262.
fullZone(zone, zoneId) ==
  Spread(zone, [id |-> zoneId, verified |-> FALSE, version |-> 1])

\* Lines 506-512 with line 511 keeping the version it read.
updatedZoneSameVersion(existingZone, changes) ==
  Spread(Spread(existingZone, changes),
         [id |-> existingZone.id, verified |-> existingZone.verified,
          version |-> existingZone.version])

\* updatedZone, lines 506-512.
updatedZone(existingZone, changes) ==
  Spread(Spread(existingZone, changes),
         [id |-> existingZone.id, verified |-> existingZone.verified,
          version |-> existingZone.version + 1])

\* ------------------------------------------------------- shard reconciling
NoFile == [missing |-> TRUE]

\* The empty index of lines 229-235.
EmptyIndex(country, region) ==
  [country |-> country, region |-> region, zoneCount |-> 0, zones |-> << >>]

\* Lines 264-268 without the recount of lines 270-275: the fault the
\* zoneCount invariant has to tell from the code.
InsertZoneNoRecount(existingContent, geohash, zone) ==
  LET zones1 == IF ~HasKey(existingContent.zones, geohash)
                  THEN Append(existingContent.zones, [key |-> geohash, bucket |-> << >>])
                  ELSE existingContent.zones
  IN [existingContent EXCEPT
        !.zones = [zones1 EXCEPT ![KeyIndex(zones1, geohash)].bucket = Append(@, zone)]]

\* Lines 264-275: push into the geohash bucket, creating it if absent, and
\* recount.
InsertZone(existingContent, geohash, zone) ==
  LET zones1 == IF ~HasKey(existingContent.zones, geohash)
                  THEN Append(existingContent.zones, [key |-> geohash, bucket |-> << >>])
                  ELSE existingContent.zones
      zones2 == [zones1 EXCEPT ![KeyIndex(zones1, geohash)].bucket = Append(@, zone)]
  IN [existingContent EXCEPT !.zones = zones2, !.zoneCount = TotalCount(zones2)]

\* bucket.splice(index, 1)
Splice(bucket, index) ==
  [j \in 1..(Len(bucket) - 1) |-> IF j < index THEN bucket[j] ELSE bucket[j + 1]]

\* delete zones[key]
DeleteKey(zones, key) ==
  LET at == KeyIndex(zones, key)
  IN [j \in 1..(Len(zones) - 1) |-> IF j < at THEN zones[j] ELSE zones[j + 1]]

\* Lines 519-532 without the splice and delete of lines 521-524: the moved
\* zone stays in its old bucket too.
PlaceUpdatedNoSplice(existingContent, foundGeohash, foundIndex, changes, zone) ==
  LET zones == existingContent.zones
      newGeohash == IF Has(changes, "center")
                      THEN geohashEncode(zone.center.lat, zone.center.lng)
                      ELSE foundGeohash
      opened == IF ~HasKey(zones, newGeohash)
                  THEN Append(zones, [key |-> newGeohash, bucket |-> << >>])
                  ELSE zones
      moved == [opened EXCEPT ![KeyIndex(opened, newGeohash)].bucket = Append(@, zone)]
  IN IF newGeohash # foundGeohash
       THEN [existingContent EXCEPT !.zones = moved]
       ELSE [existingContent EXCEPT
               !.zones[KeyIndex(zones, foundGeohash)].bucket[foundIndex] = zone]

\* Line 531 alone: the zone is always replaced where it was found.
PlaceUpdatedInPlace(existingContent, foundGeohash, foundIndex, changes, zone) ==
  [existingContent EXCEPT
     !.zones[KeyIndex(existingContent.zones, foundGeohash)].bucket[foundIndex] = zone]

\* Lines 519-532 with the branch of lines 520-529 taken for every update:
\* the zone is spliced out and pushed also when its bucket stays.
PlaceUpdatedAlwaysPush(existingContent, foundGeohash, foundIndex, changes, zone) ==
  LET zones == existingContent.zones
      newGeohash == IF Has(changes, "center")
                      THEN geohashEncode(zone.center.lat, zone.center.lng)
                      ELSE foundGeohash
      at == KeyIndex(zones, foundGeohash)
      removed == [zones EXCEPT ![at].bucket = Splice(@, foundIndex)]
      pruned == IF removed[at].bucket = << >> THEN DeleteKey(removed, foundGeohash)
                ELSE removed
      opened == IF ~HasKey(pruned, newGeohash)
                  THEN Append(pruned, [key |-> newGeohash, bucket |-> << >>])
                  ELSE pruned
  IN [existingContent EXCEPT
        !.zones = [opened EXCEPT ![KeyIndex(opened, newGeohash)].bucket = Append(@, zone)]]

\* Lines 519-532 without the delete of lines 522-524: a bucket the moved
\* zone leaves empty keeps its key.
PlaceUpdatedKeepEmptyKey(existingContent, foundGeohash, foundIndex, changes, zone) ==
  LET zones == existingContent.zones
      newGeohash == IF Has(changes, "center")
                      THEN geohashEncode(zone.center.lat, zone.center.lng)
                      ELSE foundGeohash
      at == KeyIndex(zones, foundGeohash)
      removed == [zones EXCEPT ![at].bucket = Splice(@, foundIndex)]
      opened == IF ~HasKey(removed, newGeohash)
                  THEN Append(removed, [key |-> newGeohash, bucket |-> << >>])
                  ELSE removed
      moved == [opened EXCEPT ![KeyIndex(opened, newGeohash)].bucket = Append(@, zone)]
  IN IF newGeohash # foundGeohash
       THEN [existingContent EXCEPT !.zones = moved]
       ELSE [existingContent EXCEPT !.zones[at].bucket[foundIndex] = zone]

\* Lines 514-532: replace the zone in place, or move it to the bucket of
\* its new center.  zoneCount is left as it was read.
PlaceUpdated(existingContent, foundGeohash, foundIndex, changes, zone) ==
  LET zones == existingContent.zones
      newGeohash == IF Has(changes, "center")
                      THEN geohashEncode(zone.center.lat, zone.center.lng)
                      ELSE foundGeohash
      at == KeyIndex(zones, foundGeohash)
      removed == [zones EXCEPT ![at].bucket = Splice(@, foundIndex)]
      pruned == IF removed[at].bucket = << >> THEN DeleteKey(removed, foundGeohash)
                ELSE removed
      opened == IF ~HasKey(pruned, newGeohash)
                  THEN Append(pruned, [key |-> newGeohash, bucket |-> << >>])
                  ELSE pruned
      moved == [opened EXCEPT ![KeyIndex(opened, newGeohash)].bucket = Append(@, zone)]
  IN IF newGeohash # foundGeohash
       THEN [existingContent EXCEPT !.zones = moved]
       ELSE [existingContent EXCEPT !.zones[at].bucket[foundIndex] = zone]

\* bucket.findIndex((z) => z.id === zoneId): 0 stands for -1.
FindIndex(bucket, zoneId) ==
  IF \E j \in 1..Len(bucket) : bucket[j].id = zoneId
    THEN CHOOSE j \in 1..Len(bucket) :
           bucket[j].id = zoneId /\ \A k \in 1..(j - 1) : bucket[k].id # zoneId
    ELSE 0

\* Lines 483-493: the first bucket, in enumeration order, that holds zoneId.
FindZone(content, zoneId) ==
  LET hits == { b \in 1..Len(content.zones) : FindIndex(content.zones[b].bucket, zoneId) # 0 }
  IN IF hits = {} THEN NoZone
     ELSE LET b == CHOOSE c \in hits : \A d \in hits : c <= d
          IN [foundGeohash |-> content.zones[b].key,
              foundIndex |-> FindIndex(content.zones[b].bucket, zoneId)]

\* ------------------------------------------------------------ the manifest
\* Math.round(v * 10) / 10 for v in units of 1e-4 degree: to the nearest
\* multiple of 1000, a tie going up.
Round1(v) == ((v + (BboxStep \div 2)) \div BboxStep) * BboxStep

RECURSIVE BboxScan(_, _)
BboxScan(records, box) ==
  IF records = << >> THEN box
  ELSE LET c == Head(records).center
       IN BboxScan(Tail(records),
            [north |-> IF c.lat > box.north THEN c.lat ELSE box.north,
             south |-> IF c.lat < box.south THEN c.lat ELSE box.south,
             east |-> IF c.lng > box.east THEN c.lng ELSE box.east,
             west |-> IF c.lng < box.west THEN c.lng ELSE box.west])

\* Lines 12-30 without the padding of line 24.
computeBboxNoPad(zones) ==
  LET box == BboxScan(Flatten(zones),
               [north |-> 0 - LatMax, south |-> LatMax,
                east |-> 0 - LngMax, west |-> LngMax])
  IN [north |-> Round1(box.north), south |-> Round1(box.south),
      east |-> Round1(box.east), west |-> Round1(box.west)]

computeBbox(zones) ==
  LET box == BboxScan(Flatten(zones),
               [north |-> 0 - LatMax, south |-> LatMax,
                east |-> 0 - LngMax, west |-> LngMax])
  IN [north |-> Round1(box.north + BboxPad), south |-> Round1(box.south - BboxPad),
      east |-> Round1(box.east + BboxPad), west |-> Round1(box.west - BboxPad)]

RECURSIVE ManifestRegionsReversed(_)
\* Lines 40-47 with unshift for push: the last file first.
ManifestRegionsReversed(zoneFiles) ==
  IF zoneFiles = << >> THEN << >>
  ELSE ManifestRegionsReversed(Tail(zoneFiles))
       \o << [country |-> Head(zoneFiles).country, region |-> Head(zoneFiles).region,
               bbox |-> computeBbox(Head(zoneFiles).zones),
               zoneCount |-> Head(zoneFiles).zoneCount] >>

RECURSIVE ManifestRegions(_)
ManifestRegions(zoneFiles) ==
  IF zoneFiles = << >> THEN << >>
  ELSE << [country |-> Head(zoneFiles).country, region |-> Head(zoneFiles).region,
           bbox |-> computeBbox(Head(zoneFiles).zones),
           zoneCount |-> Head(zoneFiles).zoneCount] >>
       \o ManifestRegions(Tail(zoneFiles))

\* lastUpdated is the stamp `now` of the call.
buildManifest(zoneFiles, now) ==
  [regions |-> ManifestRegions(zoneFiles), lastUpdated |-> now]

\* ---------------------------------------------------------- the repository
\* A tree of the target branch: the shard files by path (country, region)
\* and manifest.json.
EmptyTree == [shards |-> [q \in {} |-> NoFile], manifest |-> NoFile]
FileAt(tree, path) == IF path \in DOMAIN tree.shards THEN tree.shards[path] ELSE NoFile
PutFile(tree, path, content) ==
  [tree EXCEPT !.shards =
     [q \in (DOMAIN tree.shards) \cup { path } |-> IF q = path THEN content ELSE tree.shards[q]]]

\* Every path a submission of the model can name, in git's tree order.
AllPaths == << << "GB", "scotland" >>, << "GB", "wales" >> >>
\* getTree(..., recursive) filtered to zones/**/zones.json, lines 462-471.
ZoneFilePaths(tree) == SelectSeq(AllPaths, LAMBDA q : q \in DOMAIN tree.shards)

\* The squash merge of a pull request: a three-way merge of each shard file
\* on the merge base, the target head and the pull request's branch.  Two
\* changes of one shard file both rewrite its lastUpdated line: a conflict.
MergeConflict(base, ours, theirs) ==
  \E q \in (DOMAIN ours.shards) \cup (DOMAIN theirs.shards) :
    /\ FileAt(theirs, q) # FileAt(base, q)
    /\ FileAt(ours, q) # FileAt(base, q)
MergedTree(base, ours, theirs) ==
  [ours EXCEPT !.shards =
     [q \in (DOMAIN ours.shards) \cup (DOMAIN theirs.shards) |->
        IF FileAt(theirs, q) # FileAt(base, q) THEN theirs.shards[q] ELSE ours.shards[q]]]

\* ------------------------------------------------------------ issue bodies
Pt(lat, lng) == [lat |-> lat, lng |-> lng]
BaseZone ==
  [name |-> << "Car", "Park", "A" >>, center |-> Pt(0, 0), radius |-> 50,
   enforcementType |-> "council", enforcementMethod |-> "camera_anpr",
   country |-> "GB", region |-> "scotland"]
\* Car Park A at the corner of four cells, carrying the three keys the
\* system assigns.
ZoneA ==
  Spread(BaseZone, [id |-> << "mine" >>, verified |-> TRUE, version |-> 7, freeMinutes |-> 30,
                    currency |-> "EUR"])
\* 11 m north of A in the next cell, radius within 30 %: Rule B only.
ZoneB == [BaseZone EXCEPT !.name = << "car", "park", "B" >>, !.center = Pt(1, 0), !.radius = 55]
\* 49.7 m from A under A's name in other case, radius far off: Rule A only.
ZoneC == [BaseZone EXCEPT !.name = << "CAR", " ", "park", "a" >>, !.center = Pt(4, 2), !.radius = 500]
\* 111 m north of A, in B's cell: no duplicate of either.
ZoneD == [BaseZone EXCEPT !.name = << "Long", "Stay" >>, !.center = Pt(10, 0)]
\* Another region's shard.
ZoneW == [BaseZone EXCEPT !.name = << "Cardiff", "Bay" >>, !.center = Pt(2, 20), !.region = "wales"]
\* center.lat missing and a three-letter country.
BadLatCountry == [BaseZone EXCEPT !.center = [lng |-> 0], !.country = "GBR"]
\* One violation: radius 0.
BadRadius == [BaseZone EXCEPT !.radius = 0]

\* 47 m from A, three of the five tokens of the two names shared (0.6),
\* radius far off: Rule A at its threshold.
ZoneE ==
  [BaseZone EXCEPT !.name = << "Car", "Park", "A", "north", "side" >>,
                   !.center = Pt(3, 3), !.radius = 500]

Json(data) == [kind |-> "json", data |-> data]
SubmissionBodies ==
  { Json(ZoneA), Json(ZoneB), Json(ZoneC), Json(ZoneD), Json(ZoneW),
    Json(BadLatCountry), Json(BadRadius), [kind |-> "nojson"], [kind |-> "badjson"] }

\* The changes of an update payload.
MoveNorth == [center |-> Pt(1, 0)]
MoveSouth == [center |-> Pt(0, 0)]
\* A new name and another region, with the three keys the system assigns.
Rename ==
  [name |-> << "Renamed" >>, region |-> "wales", id |-> << "mine" >>, verified |-> TRUE,
   version |-> 9]
\* Nothing but the three keys the system assigns and a key the schema does
\* not know.
OnlySystemKeys ==
  [id |-> << "mine" >>, verified |-> TRUE, version |-> 9, nickname |-> << "Nick" >>]
\* changes: {}
NoChanges == [k \in {} |-> 0]
BadChange == [radius |-> 0 - 5]
UpdateChanges == { MoveNorth, MoveSouth, Rename }
UnknownId == << "cdn", "GB", "scotland", 0 >>

RECURSIVE SeqIds(_)
SeqIds(records) ==
  IF records = << >> THEN {} ELSE { Head(records).id } \cup SeqIds(Tail(records))
\* The ids of the records of a tree.
TreeIds(tree) ==
  UNION { SeqIds(Flatten(tree.shards[q].zones)) : q \in DOMAIN tree.shards }

\* The update payloads an issue may carry, given the ids on the target.
UpdateBodies(ids) ==
  { Json([zoneId |-> z, changes |-> c]) : z \in ids, c \in UpdateChanges \cup { OnlySystemKeys } }
  \cup { Json([zoneId |-> UnknownId, changes |-> Rename]),
         Json([zoneId |-> UnknownId, changes |-> NoChanges]),
         Json([zoneId |-> UnknownId, changes |-> BadChange]) }

TrustedEmail == "trusted@example.org"
Emails == { "none", TrustedEmail, "other@example.org" }

\* ---------------------------------------------------------------- state
VARIABLES
  commits,    \* the target branch: the tree of each commit, the head last
  branches,   \* the per-issue branches, by name: [base, tree]
  pulls,      \* the pull requests, by number: [head, base, merged]
  issues,     \* the issues, by number: [kind, body, email, labels, comments, state]
  run,        \* the workflow run of each issue: its position and its locals
  uuids,      \* how many UUIDs crypto.randomUUID has handed out
  config,     \* config/settings.json and config/auto-merge-emails.json
  maxActive,  \* how many workflow runs the runner executes at a time
  probe       \* a call of a pure function: its arguments and its result

vars == << commits, branches, pulls, issues, run, uuids, config, maxActive, probe >>

Head_ == commits[Len(commits)]
Labels == { "status:processing", "status:invalid", "status:duplicate",
            "status:completed", "status:error" }

\* The locals of a run before its first step.
FreshRun ==
  [pc |-> "start", msg |-> NoZone, term |-> "", close |-> FALSE, failed |-> FALSE,
   zone |-> NoZone, zoneId |-> << >>, changes |-> NoZone, filePath |-> << >>,
   existingFile |-> NoFile, existingContent |-> NoFile, duplicate |-> NoZone,
   geohash |-> << >>, found |-> NoZone, existingZone |-> NoZone,
   baseSha |-> 0, pr |-> 0, shouldAutoMerge |-> FALSE,
   paths |-> << >>, idx |-> 0, zoneFiles |-> << >>, existingSha |-> NoFile,
   reads |-> 0, writes |-> 0]

Active == { i \in 1..Len(run) : run[i].pc # "done" }
BranchName(i) ==
  << IF issues[i].kind = "submission" THEN "zone-submission" ELSE "zone-update",
     DEFAULT_BRANCH, i >>

\* The three helpers of lines 166-176, as the tail of a run: post msg, add
\* the label term, and close the issue unless the run failed.
Report(r, msg, term, close) ==
  [r EXCEPT !.pc = "comment", !.msg = msg, !.term = term, !.close = close]
\* Lines 375-379 without the comment and the label.
ThrowSilently(r, message) == [r EXCEPT !.pc = "done", !.failed = TRUE]
\* The catch block of lines 375-379.
Throw(r, message) ==
  [Report(r, [kind |-> "internal", message |-> message], "status:error", FALSE)
     EXCEPT !.failed = TRUE]

NoProbe == [fn |-> "none"]

InitWith(n, configs) ==
  /\ probe = NoProbe
  /\ commits = << EmptyTree >>
  /\ branches = [q \in {} |-> NoFile]
  /\ pulls = << >>
  /\ issues = << >>
  /\ run = << >>
  /\ uuids = 0
  /\ config \in configs
  /\ maxActive = n

AutoMergeOn == [settings |-> [autoMerge |-> TRUE], emails |-> [list |-> << >>]]
AutoMergeOff == [settings |-> [autoMerge |-> FALSE], emails |-> [list |-> << TrustedEmail >>]]

\* settings.json missing or unreadable, with and without the e-mail list,
\* and the e-mail list missing under autoMerge: false.
NoSettings == [settings |-> NoFile, emails |-> [list |-> << TrustedEmail >>]]
NoConfig == [settings |-> NoFile, emails |-> NoFile]
NoEmails == [settings |-> [autoMerge |-> FALSE], emails |-> NoFile]

\* One workflow run at a time.
Init == InitWith(1, { AutoMergeOn, AutoMergeOff })

\* An issue is opened and its workflow run queued.  The first run has the
\* repository to itself.  An Email field is read only when
\* settings.autoMerge is off.
OpenIssue(kind, body, email) ==
  /\ Len(issues) < MaxIssues
  /\ Cardinality(Active) < maxActive
  /\ Len(issues) = 1 => run[1].pc = "done"
  /\ email # "none" => ~(config.settings # NoFile /\ config.settings.autoMerge)
  /\ issues' = Append(issues, [kind |-> kind, body |-> body, email |-> email,
                               labels |-> {}, comments |-> << >>, state |-> "open"])
  /\ run' = Append(run, FreshRun)
  /\ UNCHANGED << commits, branches, pulls, uuids, config, maxActive, probe >>

\* The submissions of the model that fill in the Email field; of the
\* updates, the moves do.
EmailedBodies == { Json(ZoneB) }
\* The issues opened while runs overlap: two zones of one region that are
\* duplicates of each other, a third zone of the region, a zone of another
\* region, and a move.
ConcurrentSubmissions == { Json(ZoneA), Json(ZoneB), Json(ZoneD), Json(ZoneW) }
ConcurrentUpdates(ids) == { Json([zoneId |-> z, changes |-> MoveNorth]) : z \in ids }

Submit ==
  \E body \in IF maxActive = 1 THEN SubmissionBodies ELSE ConcurrentSubmissions,
     email \in Emails :
    /\ email # "none" => body \in EmailedBodies
    /\ OpenIssue("submission", body, email)
RequestUpdate ==
  \E body \in IF maxActive = 1 THEN UpdateBodies(TreeIds(Head_))
               ELSE ConcurrentUpdates(TreeIds(Head_)),
     email \in Emails :
    /\ email # "none" => maxActive = 1 /\ body \in ConcurrentUpdates(TreeIds(Head_))
    /\ OpenIssue("update", body, email)

Step(i, r) == run' = [run EXCEPT ![i] = r]
Labelled(i, label) == issues' = [issues EXCEPT ![i].labels = @ \cup { label }]

\* processSubmission, lines 178-219: the label, the JSON block, the schema.
SubmissionStart(i) ==
  LET r == run[i]
      body == issues[i].body
      validation == ParkingZoneSubmission(body.data)
  IN /\ r.pc = "start" /\ issues[i].kind = "submission"
     /\ Labelled(i, "status:processing")
     /\ Step(i,
          IF body.kind # "json"
            THEN Report(r, [kind |-> "error", message |-> body.kind], "status:invalid", TRUE)
          ELSE IF ~validation.success
            THEN Report(r, [kind |-> "validation", errors |-> validation.issues],
                        "status:invalid", TRUE)
          ELSE [r EXCEPT !.pc = "readShard", !.zone = validation.data,
                         !.filePath = << validation.data.country, validation.data.region >>])
     /\ UNCHANGED << commits, branches, pulls, uuids, config, maxActive, probe >>

\* Lines 243-249 without the return of line 250: the run goes on to the
\* branch with the shard as it read it.
DuplicateFoundNoReturn(r, duplicate) ==
  [r EXCEPT !.duplicate = duplicate, !.pc = "getRef"]

\* Lines 243-251: a duplicate ends the run.
DuplicateFound(r, duplicate) ==
  Report([r EXCEPT !.duplicate = duplicate],
         [kind |-> "duplicate", name |-> duplicate.name, id |-> duplicate.id],
         "status:duplicate", TRUE)

\* Lines 221-278: read the shard on the target branch, look for a
\* duplicate, and build the new content.
ReadShard(i) ==
  LET r == run[i]
      file == FileAt(Head_, r.filePath)
      content == IF file = NoFile THEN EmptyIndex(r.filePath[1], r.filePath[2]) ELSE file
      duplicate == findDuplicate(r.zone, content.zones)
      geohash == geohashEncode(r.zone.center.lat, r.zone.center.lng)
      zoneId == generateZoneId(r.filePath[1], r.filePath[2], uuids + 1)
      read == [r EXCEPT !.existingFile = file, !.existingContent = content, !.reads = @ + 1]
  IN /\ r.pc = "readShard"
     /\ IF duplicate # NoZone
          THEN /\ Step(i, DuplicateFound(read, duplicate))
               /\ uuids' = uuids
          ELSE /\ Step(i, [read EXCEPT !.pc = "getRef", !.geohash = geohash,
                             !.zoneId = zoneId,
                             !.existingContent =
                               InsertZone(content, geohash, fullZone(r.zone, zoneId))])
               /\ uuids' = uuids + 1
     /\ UNCHANGED << commits, branches, pulls, issues, config, maxActive, probe >>

\* processUpdate, lines 416-459: the label, the JSON block, the schema,
\* and the test for an empty changes object.
UpdateStart(i) ==
  LET r == run[i]
      body == issues[i].body
      validation == ZoneUpdatePayload(body.data)
  IN /\ r.pc = "start" /\ issues[i].kind = "update"
     /\ Labelled(i, "status:processing")
     /\ Step(i,
          IF body.kind # "json"
            THEN Report(r, [kind |-> "error", message |-> body.kind], "status:invalid", TRUE)
          ELSE IF ~validation.success
            THEN Report(r, [kind |-> "validation", errors |-> validation.issues],
                        "status:invalid", TRUE)
          ELSE IF DOMAIN validation.data.changes = {}
            THEN Report(r, [kind |-> "error", message |-> "nochanges"], "status:invalid", TRUE)
          ELSE [r EXCEPT !.pc = "getTree", !.zoneId = validation.data.zoneId,
                         !.changes = validation.data.changes])
     /\ UNCHANGED << commits, branches, pulls, uuids, config, maxActive, probe >>

\* Lines 497-501 without the return of line 501.
NotFoundNoReturn(r) == [r EXCEPT !.pc = "getRef"]

\* Lines 497-502: no zone file holds zoneId.
NotFound(r) ==
  Report(r, [kind |-> "error", message |-> "notfound", id |-> r.zoneId], "status:invalid", TRUE)

\* Lines 461-471: list the zone files of the target branch.
GetTree(i) ==
  LET r == run[i]
      paths == ZoneFilePaths(Head_)
  IN /\ r.pc = "getTree"
     /\ Step(i, IF paths = << >> THEN NotFound(r)
                ELSE [r EXCEPT !.pc = "findZone", !.paths = paths, !.idx = 1])
     /\ UNCHANGED << commits, branches, pulls, issues, uuids, config, maxActive, probe >>

\* Lines 479-536: read the next zone file and look for zoneId in it; when
\* found, apply the changes and place the updated zone.
FindInFile(i) ==
  LET r == run[i]
      filePath == r.paths[r.idx]
      file == FileAt(Head_, filePath)
      found == FindZone(file, r.zoneId)
      existingZone == Bucket(file.zones, found.foundGeohash)[found.foundIndex]
      read == [r EXCEPT !.reads = @ + 1]
  IN /\ r.pc = "findZone"
     /\ Step(i,
          IF found # NoZone
            THEN [read EXCEPT !.pc = "getRef", !.filePath = filePath, !.existingFile = file,
                    !.found = found, !.existingZone = existingZone,
                    !.existingContent =
                      PlaceUpdated(file, found.foundGeohash, found.foundIndex, r.changes,
                                   updatedZone(existingZone, r.changes))]
          ELSE IF r.idx < Len(r.paths) THEN [read EXCEPT !.idx = @ + 1]
          ELSE NotFound(read))
     /\ UNCHANGED << commits, branches, pulls, issues, uuids, config, maxActive, probe >>

\* Lines 280-283 and 539-541: the head of the target branch.
GetRef(i) ==
  /\ run[i].pc = "getRef"
  /\ Step(i, [run[i] EXCEPT !.pc = "deleteRef", !.baseSha = Len(commits)])
  /\ UNCHANGED << commits, branches, pulls, issues, uuids, config, maxActive, probe >>

\* Lines 280-295 without the deleteRef of lines 285-288: a branch left by
\* an earlier run stays.
DeleteRefKeepsBranch(i) ==
  /\ run[i].pc = "deleteRef"
  /\ Step(i, [run[i] EXCEPT !.pc = "createRef"])
  /\ UNCHANGED << commits, branches, pulls, issues, uuids, config, maxActive, probe >>

\* Lines 285-288 and 543-545: drop a stale branch; a failure is ignored.
DeleteRef(i) ==
  /\ run[i].pc = "deleteRef"
  /\ branches' = [q \in (DOMAIN branches) \ { BranchName(i) } |-> branches[q]]
  /\ Step(i, [run[i] EXCEPT !.pc = "createRef"])
  /\ UNCHANGED << commits, pulls, issues, uuids, config, maxActive, probe >>

\* Lines 290-295 and 547-552: the branch, at the commit getRef returned.
CreateRef(i) ==
  LET r == run[i]
      name == BranchName(i)
  IN /\ r.pc = "createRef"
     /\ IF name \in DOMAIN branches
          THEN /\ Step(i, Throw(r, "Reference already exists"))
               /\ branches' = branches
          ELSE /\ Step(i, [r EXCEPT !.pc = "commit"])
               /\ branches' = [q \in (DOMAIN branches) \cup { name } |->
                                 IF q = name THEN [base |-> r.baseSha, tree |-> commits[r.baseSha]]
                                 ELSE branches[q]]
     /\ UNCHANGED << commits, pulls, issues, uuids, config, maxActive, probe >>

\* A contents API that writes whatever sha the caller sends.
ShaAcceptedAlways(tree, path, sha) == TRUE

\* createOrUpdateFileContents on a branch: with a sha, the file must be
\* there under that sha; without one, the file must not be there.
ShaAccepted(tree, path, sha) ==
  IF sha = NoFile THEN FileAt(tree, path) = NoFile ELSE FileAt(tree, path) = sha

\* Lines 297-319 and 554-566 with branch: targetBranch: the new content is
\* committed to the target branch.
CommitToTarget(i) ==
  LET r == run[i]
  IN /\ r.pc = "commit"
     /\ commits' = Append(commits, PutFile(Head_, r.filePath, r.existingContent))
     /\ Step(i, [r EXCEPT !.writes = @ + 1, !.pc = "createPr"])
     /\ UNCHANGED << branches, pulls, issues, uuids, config, maxActive, probe >>

\* Lines 297-319 and 554-566: commit the new content to the branch.
Commit(i) ==
  LET r == run[i]
      name == BranchName(i)
      tried == [r EXCEPT !.writes = @ + 1]
  IN /\ r.pc = "commit"
     /\ IF ShaAccepted(branches[name].tree, r.filePath, r.existingFile)
          THEN /\ branches' = [branches EXCEPT ![name].tree =
                                 PutFile(@, r.filePath, r.existingContent)]
               /\ Step(i, [tried EXCEPT !.pc = "createPr"])
          ELSE /\ branches' = branches
               /\ Step(i, Throw(tried, IF r.existingFile = NoFile
                                         THEN "sha wasn't supplied"
                                         ELSE "sha does not match"))
     /\ UNCHANGED << commits, pulls, issues, uuids, config, maxActive, probe >>

\* Lines 321-329 and 568-576.
CreatePr(i) ==
  /\ run[i].pc = "createPr"
  /\ pulls' = Append(pulls, [head |-> BranchName(i), base |-> DEFAULT_BRANCH, merged |-> FALSE])
  /\ Step(i, [run[i] EXCEPT !.pc = "getSettings", !.pr = Len(pulls) + 1])
  /\ UNCHANGED << commits, branches, issues, uuids, config, maxActive, probe >>

SeqHas(seq, v) == \E j \in 1..Len(seq) : seq[j] = v

ForReview(r) == Report(r, [kind |-> "review", pr |-> r.pr], "status:completed", TRUE)

\* Lines 331-338 and 578-585: settings.autoMerge; an unreadable file counts
\* as off.  Only processSubmission goes on to the e-mail list (340-350).
GetSettings(i) ==
  LET r == run[i]
      on == config.settings # NoFile /\ config.settings.autoMerge
  IN /\ r.pc = "getSettings"
     /\ Step(i,
          IF on THEN [r EXCEPT !.pc = "merge", !.shouldAutoMerge = TRUE]
          ELSE IF issues[i].kind = "submission" /\ issues[i].email # "none"
            THEN [r EXCEPT !.pc = "getEmails"]
          ELSE ForReview(r))
     /\ UNCHANGED << commits, branches, pulls, issues, uuids, config, maxActive, probe >>

\* Lines 343-349 without the test of line 347: any e-mail is trusted.
GetEmailsAnyEmail(i) ==
  /\ run[i].pc = "getEmails"
  /\ Step(i, [run[i] EXCEPT !.pc = "merge", !.shouldAutoMerge = TRUE])
  /\ UNCHANGED << commits, branches, pulls, issues, uuids, config, maxActive, probe >>

\* Lines 343-349: the trusted e-mail list.
GetEmails(i) ==
  LET r == run[i]
      trusted == config.emails # NoFile /\ SeqHas(config.emails.list, issues[i].email)
  IN /\ r.pc = "getEmails"
     /\ Step(i, IF trusted THEN [r EXCEPT !.pc = "merge", !.shouldAutoMerge = TRUE]
                ELSE ForReview(r))
     /\ UNCHANGED << commits, branches, pulls, issues, uuids, config, maxActive, probe >>

\* Lines 352-354, 365-367 and 587-589, 598-600: squash-merge the pull
\* request into the target branch.
Merge(i) ==
  LET r == run[i]
      b == branches[pulls[r.pr].head]
  IN /\ r.pc = "merge"
     /\ IF MergeConflict(commits[b.base], Head_, b.tree)
          THEN /\ Step(i, Report(r, [kind |-> "mergeFailed", pr |-> r.pr],
                                 "status:completed", TRUE))
               /\ UNCHANGED << commits, pulls >>
          ELSE /\ commits' = Append(commits, MergedTree(commits[b.base], Head_, b.tree))
               /\ pulls' = [pulls EXCEPT ![r.pr].merged = TRUE]
               /\ Step(i, [r EXCEPT !.pc = "manifestTree"])
     /\ UNCHANGED << branches, issues, uuids, config, maxActive, probe >>

Merged(r) == Report(r, [kind |-> "merged", pr |-> r.pr], "status:completed", TRUE)

\* updateManifestViaApi, lines 108-117: the zone files of the branch.
ManifestTree(i) ==
  LET r == run[i]
      paths == ZoneFilePaths(Head_)
  IN /\ r.pc = "manifestTree"
     /\ Step(i, [r EXCEPT !.pc = IF paths = << >> THEN "manifestSha" ELSE "manifestRead",
                          !.paths = paths, !.idx = 1, !.zoneFiles = << >>])
     /\ UNCHANGED << commits, branches, pulls, issues, uuids, config, maxActive, probe >>

\* Lines 119-124: read the next zone file.
ManifestRead(i) ==
  LET r == run[i]
  IN /\ r.pc = "manifestRead"
     /\ Step(i, [r EXCEPT !.zoneFiles = Append(@, FileAt(Head_, r.paths[r.idx])),
                          !.idx = @ + 1,
                          !.pc = IF r.idx < Len(r.paths) THEN "manifestRead" ELSE "manifestSha"])
     /\ UNCHANGED << commits, branches, pulls, issues, uuids, config, maxActive, probe >>

\* Lines 129-134: the sha of the manifest on the branch, if there is one.
ManifestSha(i) ==
  /\ run[i].pc = "manifestSha"
  /\ Step(i, [run[i] EXCEPT !.pc = "manifestWrite", !.existingSha = Head_.manifest])
  /\ UNCHANGED << commits, branches, pulls, issues, uuids, config, maxActive, probe >>

\* Lines 136-146: commit manifest.json to the target branch; lines 358-362:
\* a rejected write is a warning and the run goes on.
ManifestWrite(i) ==
  LET r == run[i]
      manifest == buildManifest(r.zoneFiles, Len(commits) + 1)
  IN /\ r.pc = "manifestWrite"
     /\ commits' = IF Head_.manifest = r.existingSha
                     THEN Append(commits, [Head_ EXCEPT !.manifest = manifest])
                     ELSE commits
     /\ Step(i, Merged(r))
     /\ UNCHANGED << branches, pulls, issues, uuids, config, maxActive, probe >>

\* addComment, lines 166-168.
AddComment(i) ==
  /\ run[i].pc = "comment"
  /\ issues' = [issues EXCEPT ![i].comments = Append(@, run[i].msg)]
  /\ Step(i, [run[i] EXCEPT !.pc = "label"])
  /\ UNCHANGED << commits, branches, pulls, uuids, config, maxActive, probe >>

\* addLabel, lines 170-172, with the run's closing label.
AddLabel(i) ==
  /\ run[i].pc = "label"
  /\ Labelled(i, run[i].term)
  /\ Step(i, [run[i] EXCEPT !.pc = IF run[i].close THEN "close" ELSE "done"])
  /\ UNCHANGED << commits, branches, pulls, uuids, config, maxActive, probe >>

\* closeIssue, lines 174-176.
CloseIssue(i) ==
  /\ run[i].pc = "close"
  /\ issues' = [issues EXCEPT ![i].state = "closed"]
  /\ Step(i, [run[i] EXCEPT !.pc = "done"])
  /\ UNCHANGED << commits, branches, pulls, uuids, config, maxActive, probe >>

Runs == 1..Len(run)

Next ==
  \/ Submit
  \/ RequestUpdate
  \/ \E i \in Runs : SubmissionStart(i)
  \/ \E i \in Runs : ReadShard(i)
  \/ \E i \in Runs : UpdateStart(i)
  \/ \E i \in Runs : GetTree(i)
  \/ \E i \in Runs : FindInFile(i)
  \/ \E i \in Runs : GetRef(i)
  \/ \E i \in Runs : DeleteRef(i)
  \/ \E i \in Runs : CreateRef(i)
  \/ \E i \in Runs : Commit(i)
  \/ \E i \in Runs : CreatePr(i)
  \/ \E i \in Runs : GetSettings(i)
  \/ \E i \in Runs : GetEmails(i)
  \/ \E i \in Runs : Merge(i)
  \/ \E i \in Runs : ManifestTree(i)
  \/ \E i \in Runs : ManifestRead(i)
  \/ \E i \in Runs : ManifestSha(i)
  \/ \E i \in Runs : ManifestWrite(i)
  \/ \E i \in Runs : AddComment(i)
  \/ \E i \in Runs : AddLabel(i)
  \/ \E i \in Runs : CloseIssue(i)

Spec == Init /\ [][Next]_vars

\* ------------------------------------------------------ failing API calls
\* The awaited calls between the first label and the pull request whose
\* rejection reaches the catch block of lines 375-379 and 608-612: the
\* shard read (225), getTree (462), the reads of the walk (480), getRef
\* (282), createRef (290), the commit (301, 311) and pulls.create (322).
Fatal == { "readShard", "getTree", "findZone", "getRef", "createRef", "commit", "createPr" }
ApiFault(i) ==
  /\ run[i].pc \in Fatal
  /\ Step(i, Throw(run[i], run[i].pc))
  /\ UNCHANGED << commits, branches, pulls, issues, uuids, config, maxActive, probe >>

\* Lines 286-288 and 543-545: deleteRef is rejected; the catch ignores it.
DeleteRefFault(i) ==
  /\ run[i].pc = "deleteRef"
  /\ Step(i, [run[i] EXCEPT !.pc = "createRef"])
  /\ UNCHANGED << commits, branches, pulls, issues, uuids, config, maxActive, probe >>

\* Lines 365-367 and 598-600: pulls.merge is rejected.
MergeFault(i) ==
  /\ run[i].pc = "merge"
  /\ Step(i, Report(run[i], [kind |-> "mergeFailed", pr |-> run[i].pr], "status:completed", TRUE))
  /\ UNCHANGED << commits, branches, pulls, issues, uuids, config, maxActive, probe >>

\* Lines 358-362: a call of updateManifestViaApi is rejected; a warning.
ManifestFault(i) ==
  /\ run[i].pc \in { "manifestTree", "manifestRead", "manifestSha", "manifestWrite" }
  /\ Step(i, Merged(run[i]))
  /\ UNCHANGED << commits, branches, pulls, issues, uuids, config, maxActive, probe >>

\* A step of run i, taken or rejected.  The steps at readShard and
\* findZone are ReadShard(i), FindInFile(i) and ApiFault(i), and each of
\* them changes run[i]: the last disjunct names the first two by that.
RunStep(i) ==
  \/ ApiFault(i) \/ DeleteRefFault(i) \/ MergeFault(i) \/ ManifestFault(i)
  \/ SubmissionStart(i) \/ UpdateStart(i) \/ GetTree(i)
  \/ GetRef(i) \/ DeleteRef(i) \/ CreateRef(i) \/ Commit(i) \/ CreatePr(i)
  \/ GetSettings(i) \/ GetEmails(i) \/ Merge(i)
  \/ ManifestTree(i) \/ ManifestRead(i) \/ ManifestSha(i) \/ ManifestWrite(i)
  \/ AddComment(i) \/ AddLabel(i) \/ CloseIssue(i)
  \/ run[i].pc \in { "readShard", "findZone" } /\ run'[i] # run[i]

NextFaulty ==
  \/ Next /\ Len(issues') <= MaxFaultyIssues
  \/ \E i \in Runs : ApiFault(i)
  \/ \E i \in Runs : DeleteRefFault(i)
  \/ \E i \in Runs : MergeFault(i)
  \/ \E i \in Runs : ManifestFault(i)

\* One run at a time whose calls may be rejected; a job that has started
\* runs on until its function returns or throws.
SpecFaulty ==
  /\ Init
  /\ [][NextFaulty]_vars
  /\ WF_vars(\E i \in Runs : RunStep(i))

\* Two workflow runs at a time.
InitConcurrent == InitWith(2, { AutoMergeOn, AutoMergeOff })
SpecConcurrent == InitConcurrent /\ [][Next]_vars

\* ================================================================ properties
\* Every tree a shard was ever written to: the commits of the target branch
\* and the per-issue branches.
AllTrees ==
  { commits[k] : k \in 1..Len(commits) } \cup { branches[n].tree : n \in DOMAIN branches }
AllShards == UNION { { t.shards[q] : q \in DOMAIN t.shards } : t \in AllTrees }

\* The places <<bucket, index>> of a shard, and those that hold id.
Positions(shard) ==
  UNION { { << b, j >> : j \in 1..Len(shard.zones[b].bucket) } : b \in 1..Len(shard.zones) }
At(shard, pos) == shard.zones[pos[1]].bucket[pos[2]]
PositionsOf(shard, id) == { pos \in Positions(shard) : At(shard, pos).id = id }
KeysOf(shard, id) == { shard.zones[pos[1]].key : pos \in PositionsOf(shard, id) }
RecordOf(shard, id) == At(shard, CHOOSE pos \in PositionsOf(shard, id) : TRUE)
KeyOrder(shard) == [b \in 1..Len(shard.zones) |-> shard.zones[b].key]
CellOf(center) == geohashEncode(center.lat, center.lng)

\* The run of issue i committed its shard to its branch.
Committed(i) == run[i].writes >= 1 /\ ~run[i].failed
\* The pull request of issue i was merged into the target branch.
WasMerged(i) == run[i].pr # 0 /\ pulls[run[i].pr].merged
PathOf(tree, id) ==
  CHOOSE q \in DOMAIN tree.shards : PositionsOf(tree.shards[q], id) # {}

\* What a committed Update of issue i did, read off the repository: the
\* shard as the branch was cut (old) and as the run committed it (new).
UpdateOf(i) ==
  LET id == issues[i].body.data.zoneId
      b == branches[BranchName(i)]
      q == PathOf(commits[b.base], id)
      old == commits[b.base].shards[q]
      oldKey == CHOOSE k \in KeysOf(old, id) : TRUE
      changes == issues[i].body.data.changes
  IN [id |-> id, path |-> q, base |-> b.base, old |-> old, new |-> b.tree.shards[q],
      oldKey |-> oldKey, changes |-> changes,
      relocates |-> Has(changes, "center") /\ CellOf(changes.center) # oldKey]
CommittedUpdates == { i \in Runs : issues[i].kind = "update" /\ Committed(i) }
CommittedSubmissions == { i \in Runs : issues[i].kind = "submission" /\ Committed(i) }

\* C1: in every shard written by accepted Creates and Updates, starting
\* from the empty shard, zoneCount is the sum of the lengths of the buckets.
C1_ZoneCountIsBucketSum ==
  \A shard \in AllShards : shard.zoneCount = Cardinality(Positions(shard))

\* C1 at work: two Creates and an Update that emptied a bucket have been
\* merged, and the shard of the target holds one bucket of two records.
C1_Witness ==
  \E i \in CommittedUpdates :
    /\ WasMerged(i) /\ UpdateOf(i).relocates
    /\ LET shard == Head_.shards[UpdateOf(i).path]
       IN shard.zoneCount = 2 /\ Len(shard.zones) = 1

\* C2: an Update that moves a record to another geohash cell leaves it in
\* exactly one bucket of the shard it commits and of every later commit of
\* the target, under the new key, and the old key is gone from the
\* committed shard when the record was the only member of its bucket.
C2_RelocationKeepsOneBucket ==
  \A i \in CommittedUpdates :
    LET u == UpdateOf(i)
    IN u.relocates =>
         /\ Cardinality(PositionsOf(u.new, u.id)) = 1
         /\ KeysOf(u.new, u.id) = { CellOf(u.changes.center) }
         /\ Len(Bucket(u.old.zones, u.oldKey)) = 1 => ~HasKey(u.new.zones, u.oldKey)
         /\ Len(Bucket(u.old.zones, u.oldKey)) > 1 => HasKey(u.new.zones, u.oldKey)
         /\ \A k \in u.base..Len(commits) :
              Cardinality(PositionsOf(commits[k].shards[u.path], u.id)) = 1

\* C2 at work: a merged relocation out of a bucket the record had to itself,
\* and one out of a bucket it shared.
C2_Witness ==
  /\ \E i \in CommittedUpdates :
       /\ WasMerged(i) /\ UpdateOf(i).relocates
       /\ Len(Bucket(UpdateOf(i).old.zones, UpdateOf(i).oldKey)) = 1
       /\ ~HasKey(Head_.shards[UpdateOf(i).path].zones, UpdateOf(i).oldKey)
       /\ run[i].pc = "done"

\* C3: the record an accepted Update stores has the old version plus one
\* and the old id and verified, whatever keys the changes of the payload
\* carry; the other keys are the old record's overlaid with the changes the
\* schema knows.
C3_UpdateBumpsVersionOnly ==
  \A i \in CommittedUpdates :
    LET u == UpdateOf(i)
        old == RecordOf(u.old, u.id)
        new == RecordOf(u.new, u.id)
    IN /\ new.version = old.version + 1
       /\ new.id = old.id
       /\ new.verified = old.verified
       /\ \A k \in (DOMAIN new) \ { "id", "verified", "version" } :
            new[k] = IF k \in DOMAIN u.changes THEN u.changes[k] ELSE old[k]
       /\ WasMerged(i) =>
            \E k \in (u.base + 1)..Len(commits) : commits[k].shards[u.path] = u.new

\* C3 at work: a merged Update whose changes carried id, verified and
\* version.
C3_Witness ==
  \E i \in CommittedUpdates :
    /\ { "id", "verified", "version" } \subseteq DOMAIN issues[i].body.data.changes
    /\ WasMerged(i) /\ run[i].pc = "done"
    /\ RecordOf(Head_.shards[UpdateOf(i).path], UpdateOf(i).id).version = 2

\* C4: every record of every shard written is stored under the precision-6
\* geohash of its center; an Update to a center in another cell puts the
\* record under that cell's key, and any other Update leaves the record at
\* the place it had.
C4_BucketKeyIsGeohashOfCenter ==
  /\ \A shard \in AllShards : \A pos \in Positions(shard) :
       shard.zones[pos[1]].key = CellOf(At(shard, pos).center)
  /\ \A i \in CommittedUpdates :
       LET u == UpdateOf(i)
       IN IF u.relocates
            THEN KeysOf(u.new, u.id) = { CellOf(u.changes.center) }
            ELSE /\ PositionsOf(u.new, u.id) = PositionsOf(u.old, u.id)
                 /\ KeyOrder(u.new) = KeyOrder(u.old)

\* C4 at work: one merged Update moved a record to another cell, and
\* another gave a record a center inside the cell it was in.
C4_Witness ==
  /\ \E i \in CommittedUpdates : WasMerged(i) /\ UpdateOf(i).relocates
  /\ \E i \in CommittedUpdates :
       /\ WasMerged(i) /\ ~UpdateOf(i).relocates
       /\ Has(UpdateOf(i).changes, "center")
       /\ RecordOf(UpdateOf(i).old, UpdateOf(i).id).center # UpdateOf(i).changes.center

\* C5: every record of every shard written has the country and the region
\* of the shard that holds it, also after an Update whose changes set
\* country or region.
C5_RecordsCarryTheirShardsRegion ==
  \A t \in AllTrees : \A q \in DOMAIN t.shards :
    /\ << t.shards[q].country, t.shards[q].region >> = q
    /\ \A pos \in Positions(t.shards[q]) :
         << At(t.shards[q], pos).country, At(t.shards[q], pos).region >> = q

\* What a committed Create of issue i did, read off the repository.
CreateOf(i) ==
  LET payload == issues[i].body.data
      b == branches[BranchName(i)]
      q == << payload.country, payload.region >>
      old == FileAt(commits[b.base], q)
      new == b.tree.shards[q]
  IN [payload |-> payload, path |-> q, base |-> b.base, new |-> new,
      added |-> { pos \in Positions(new) :
                    old = NoFile \/ PositionsOf(old, At(new, pos).id) = {} }]

\* C6: the record a Create appends has verified = false, version = 1 and
\* an id made by the system from the shard's path and a fresh UUID, for
\* every accepted payload, also one that carries id, verified or version;
\* its other keys are the payload's, and it is the last of the bucket of
\* its cell.
C6_CreateAssignsSystemKeys ==
  \A i \in CommittedSubmissions :
    LET c == CreateOf(i)
    IN /\ Cardinality(c.added) = 1
       /\ \A pos \in c.added :
            LET rec == At(c.new, pos)
            IN /\ { "id", "verified", "version" } \subseteq DOMAIN rec
               /\ rec.verified = FALSE
               /\ rec.version = 1
               /\ Len(rec.id) = 4
               /\ rec.id = generateZoneId(c.path[1], c.path[2], rec.id[4])
               /\ rec.id[4] \in 1..uuids
               /\ Has(c.payload, "id") => rec.id # c.payload.id
               /\ \A t \in { commits[k] : k \in 1..c.base } : rec.id \notin TreeIds(t)
               /\ \A k \in (DOMAIN c.payload) \cap (SubmissionKeys \ { "center" }) :
                    rec[k] = c.payload[k]
               /\ c.new.zones[pos[1]].key = CellOf(c.payload.center)
               /\ pos[2] = Len(c.new.zones[pos[1]].bucket)

\* C6 at work: a merged Create of a payload that carried id, verified =
\* true and version = 7.
C6_Witness ==
  \E i \in CommittedSubmissions :
    /\ { "id", "verified", "version" } \subseteq DOMAIN issues[i].body.data
    /\ issues[i].body.data.verified = TRUE
    /\ WasMerged(i) /\ run[i].pc = "done"
    /\ \E pos \in CreateOf(i).added :
         Head_.shards[CreateOf(i).path].zones[pos[1]].bucket[pos[2]].verified = FALSE

\* The repository is as it was: no commit, branch or pull request is new.
RepositoryUnchanged ==
  commits' = commits /\ branches' = branches /\ pulls' = pulls
\* Issue i got the comment, the closing label and was closed.
Answered(i, comment, label) ==
  /\ issues[i].comments = << comment >>
  /\ issues[i].labels = { "status:processing", label }
  /\ issues[i].state = "closed"

\* C8: once findDuplicate has returned a record to the run of a validated
\* submission, the run only reports: no branch, commit or pull request is
\* made for the issue, no step of the run changes the repository, and the
\* run ends with one comment that carries the matched record's name and id,
\* the label status:duplicate and the issue closed.
C8_DuplicateEndsTheRun ==
  /\ [](\A i \in Runs :
          run[i].duplicate # NoZone =>
            /\ issues[i].kind = "submission"
            /\ run[i].pc \in { "comment", "label", "close", "done" }
            /\ run[i].writes = 0
            /\ BranchName(i) \notin DOMAIN branches
            /\ \A n \in 1..Len(pulls) : pulls[n].head # BranchName(i)
            /\ run[i].pc # "done" =>
                 \E q \in DOMAIN Head_.shards : \E pos \in Positions(Head_.shards[q]) :
                   At(Head_.shards[q], pos) = run[i].duplicate
            /\ run[i].pc = "done" =>
                 Answered(i, [kind |-> "duplicate", name |-> run[i].duplicate.name,
                              id |-> run[i].duplicate.id], "status:duplicate"))
  /\ [][\A i \in Runs :
          (run[i].duplicate # NoZone /\ run'[i] # run[i]) => RepositoryUnchanged]_vars

\* C8 at work: a submission 11 m from a stored zone was answered as its
\* duplicate and the target branch holds that zone alone.
C8_Witness ==
  \E i \in Runs :
    /\ run[i].duplicate # NoZone /\ run[i].pc = "done"
    /\ issues[i].body.data.name # run[i].duplicate.name
    /\ "status:duplicate" \in issues[i].labels
    /\ Cardinality(Positions(Head_.shards[<< "GB", "scotland" >>])) = 1

\* The fields of a submission payload whose constraint the payload violates,
\* as paths: name not empty, center.lat in [-90, 90], center.lng in
\* [-180, 180], radius positive, country of two characters, region not
\* empty.
ViolatedFields(d) ==
  { f \in { << "name" >>, << "center" >>, << "center", "lat" >>, << "center", "lng" >>,
            << "radius" >>, << "country" >>, << "region" >> } :
      CASE f = << "name" >> -> ~Has(d, "name") \/ Len(d.name) < 1
        [] f = << "center" >> -> ~Has(d, "center")
        [] f = << "center", "lat" >> ->
             Has(d, "center") /\ (~Has(d.center, "lat") \/ Abs(d.center.lat) > LatMax)
        [] f = << "center", "lng" >> ->
             Has(d, "center") /\ (~Has(d.center, "lng") \/ Abs(d.center.lng) > LngMax)
        [] f = << "radius" >> -> ~Has(d, "radius") \/ d.radius <= 0
        [] f = << "country" >> -> ~Has(d, "country") \/ Len(d.country) # 2
        [] f = << "region" >> -> ~Has(d, "region") \/ Len(d.region) < 1 }
\* The submissions whose JSON parsed and violates a constraint.
InvalidSubmissions ==
  { i \in Runs : /\ issues[i].kind = "submission" /\ issues[i].body.kind = "json"
                 /\ ViolatedFields(issues[i].body.data) # {} }

\* C9: for a submission that violates the constraints of k fields, the
\* run's error list has an entry for each of the k fields; the run reads
\* and writes no shard, makes no branch or pull request, changes the
\* repository in no step, and ends with the list as its comment, the label
\* status:invalid and the issue closed.
C9_EveryViolationReported ==
  /\ [](\A i \in InvalidSubmissions :
          run[i].pc # "start" =>
            /\ run[i].pc \in { "comment", "label", "close", "done" }
            /\ run[i].msg.kind = "validation"
            /\ \A f \in ViolatedFields(issues[i].body.data) : SeqHas(run[i].msg.errors, f)
            /\ \A n \in 1..Len(run[i].msg.errors) :
                 run[i].msg.errors[n] \in ViolatedFields(issues[i].body.data)
            /\ run[i].reads = 0 /\ run[i].writes = 0
            /\ BranchName(i) \notin DOMAIN branches
            /\ run[i].pc = "done" => Answered(i, run[i].msg, "status:invalid"))
  /\ [][\A i \in InvalidSubmissions : run'[i] # run[i] => RepositoryUnchanged]_vars

\* C9 at work: a payload without center.lat and with a country of three
\* letters was answered with both fields, after a zone had been merged.
C9_Witness ==
  \E i \in InvalidSubmissions :
    /\ Cardinality(ViolatedFields(issues[i].body.data)) = 2
    /\ run[i].pc = "done"
    /\ issues[i].comments =
         << [kind |-> "validation", errors |-> << << "center", "lat" >>, << "country" >> >>] >>
    /\ issues[i].state = "closed"
    /\ Len(commits) > 1

\* ------------------------------------------------ findDuplicate on its own
\* A zone as processSubmission stores it, with the n-th UUID.
StoredZone(zoneData, n) ==
  fullZone(ParkingZoneSubmission(zoneData).data,
           generateZoneId(zoneData.country, zoneData.region, n))
StoredZones ==
  { StoredZone(ZoneA, 1), StoredZone(ZoneB, 2), StoredZone(ZoneC, 3), StoredZone(ZoneD, 4) }
Candidates ==
  { ParkingZoneSubmission(z).data : z \in { ZoneA, ZoneB, ZoneC, ZoneD, ZoneE } }
\* The orders in which up to MaxStored of the stored zones came into the
\* region.
Arrivals ==
  UNION { { a \in [1..n -> StoredZones] : \A j, k \in 1..n : a[j] = a[k] => j = k } :
          n \in 0..MaxStored }
RECURSIVE ShardOf(_)
\* The shard of a region after the zones of a came into it, by lines 264-275.
ShardOf(a) ==
  IF a = << >> THEN EmptyIndex("GB", "scotland")
  ELSE LET zone == a[Len(a)]
       IN InsertZone(ShardOf(SubSeq(a, 1, Len(a) - 1)), CellOf(zone.center), zone)

InitDuplicate ==
  /\ probe \in { [fn |-> "findDuplicate", candidate |-> c,
                  existingZones |-> ShardOf(a).zones, called |-> FALSE, result |-> NoZone] :
                 c \in Candidates, a \in Arrivals }
  /\ commits = << EmptyTree >>
  /\ branches = [q \in {} |-> NoFile]
  /\ pulls = << >>
  /\ issues = << >>
  /\ run = << >>
  /\ uuids = 0
  /\ config = AutoMergeOn
  /\ maxActive = 0

\* Line 242: const duplicate = findDuplicate(zone, existingContent.zones).
CallFindDuplicate ==
  /\ probe.fn = "findDuplicate" /\ ~probe.called
  /\ probe' = [probe EXCEPT !.called = TRUE,
                            !.result = findDuplicate(probe.candidate, probe.existingZones)]
  /\ UNCHANGED << commits, branches, pulls, issues, run, uuids, config, maxActive >>

NextDuplicate == CallFindDuplicate
SpecDuplicate == InitDuplicate /\ [][NextDuplicate]_vars

\* Rule A: within 50 m, and the Jaccard similarity of the two sets of
\* lowercased name tokens is at least 0.6.
RuleA(c, z) ==
  /\ distanceMeters(c.center, z.center) <= 5000
  /\ 10 * Cardinality(Tokens(c.name) \cap Tokens(z.name))
       >= 6 * Cardinality(Tokens(c.name) \cup Tokens(z.name))
\* Rule B: within 20 m, and the radii differ by at most 0.3 of the larger.
RuleB(c, z) ==
  /\ distanceMeters(c.center, z.center) <= 2000
  /\ 10 * Abs(c.radius - z.radius) <= 3 * Max(c.radius, z.radius)
\* The places, in scan order, of the records that satisfy a rule.
Matches(c, records) == { n \in 1..Len(records) : RuleA(c, records[n]) \/ RuleB(c, records[n]) }

\* C7: findDuplicate returns the first record, in the order buckets are
\* enumerated and records stand in their bucket, that satisfies Rule A or
\* Rule B, and returns none exactly when no record of the region satisfies
\* either rule.
C7_FindDuplicateReturnsFirstMatch ==
  (probe.fn = "findDuplicate" /\ probe.called) =>
    LET records == Flatten(probe.existingZones)
        hits == Matches(probe.candidate, records)
    IN /\ probe.result = NoZone <=> hits = {}
       /\ hits # {} =>
            \E n \in hits : probe.result = records[n] /\ \A m \in hits : n <= m

\* C7 at work: a call that returned the third record scanned, a match by
\* Rule B only, with a later record that matches too.
C7_Witness ==
  /\ probe.fn = "findDuplicate" /\ probe.called
  /\ LET records == Flatten(probe.existingZones)
         hits == Matches(probe.candidate, records)
     IN /\ Len(records) = 3 /\ Len(probe.existingZones) = 2
        /\ Cardinality(hits) = 2 /\ 1 \notin hits
        /\ probe.result = records[2]
        /\ ~RuleA(probe.candidate, records[2])

\* C10: a run whose commit of the shard was rejected because the file's sha
\* was no longer the sha it had read does not end in the internal-error
\* report before it has tried the commit again.
C10_RejectedCommitIsRetried ==
  \A i \in Runs :
    (run[i].failed /\ run[i].msg.message = "sha does not match") => run[i].writes >= 2

\* The records of a tree, each with the path of its shard.
TreeRecords(tree) ==
  UNION { { [path |-> q, record |-> At(tree.shards[q], pos)] :
            pos \in Positions(tree.shards[q]) } : q \in DOMAIN tree.shards }

\* C11: when runs overlap, a run's commit of a shard is accepted only if the
\* file on its branch is the snapshot the run read, and every record of a
\* commit of the target branch is in the next commit, in the same shard,
\* as it was or as one Update of it (its version one higher): nothing a
\* run merged is lost to another run.
C11_NoLostUpdate ==
  /\ \A i \in Runs :
       Committed(i) =>
         FileAt(commits[branches[BranchName(i)].base], run[i].filePath) = run[i].existingFile
  /\ \A k \in 1..(Len(commits) - 1) :
       \A old \in TreeRecords(commits[k]) :
         \E new \in TreeRecords(commits[k + 1]) :
           /\ new.path = old.path /\ new.record.id = old.record.id
           /\ new.record = old.record \/ new.record.version = old.record.version + 1

\* C11 at work: two runs read the same shard file; one was merged, the
\* commit of the other was rejected, and the target holds what was merged.
C11_Witness ==
  \E i, j \in Runs :
    /\ i # j /\ run[i].filePath = run[j].filePath
    /\ run[i].failed /\ run[i].writes = 1 /\ run[i].existingFile # NoFile
    /\ run[i].existingFile = run[j].existingFile
    /\ WasMerged(j) /\ run[j].pc = "done" /\ run[i].pc = "done"
    /\ Head_.shards[run[j].filePath] = run[j].existingContent

\* The zone files of a tree, in the order getTree lists them.
ZoneFilesOf(tree) ==
  [n \in 1..Len(ZoneFilePaths(tree)) |-> tree.shards[ZoneFilePaths(tree)[n]]]

\* C12: once the runs that auto-merged a Create or an Update have finished,
\* also runs that overlapped, the regions of manifest.json on the target
\* branch are those buildManifest gives for the shard files on that branch.
C12_ManifestMatchesShards ==
  \A i \in Runs :
    (WasMerged(i) /\ "status:completed" \in issues[i].labels /\ Active = {}) =>
      /\ Head_.manifest # NoFile
      /\ Head_.manifest.regions = buildManifest(ZoneFilesOf(Head_), 0).regions

\* ---------------------------------- buildManifest and computeBbox on their own
\* Two zones far from the equator and south-west of it: Auckland, and a
\* center with both coordinates negative.
ZoneS == [BaseZone EXCEPT !.name = << "Britomart" >>, !.center = Pt(0 - 368442, 1747681)]
ZoneT == [BaseZone EXCEPT !.name = << "South", "West" >>, !.center = Pt(0 - 1234, 0 - 5678)]
BboxZones == StoredZones \cup { StoredZone(ZoneS, 5), StoredZone(ZoneT, 6) }
\* The orders in which up to MaxStored of these zones came into a region.
BboxArrivals ==
  UNION { { a \in [1..n -> BboxZones] : \A j, k \in 1..n : a[j] = a[k] => j = k } :
          n \in 1..MaxStored }
WalesShard ==
  InsertZone(EmptyIndex("GB", "wales"), CellOf(ZoneW.center), StoredZone(ZoneW, 7))
\* The lists of zone files read by updateManifestViaApi: one region, or two
\* regions in either order.
ZoneFileLists ==
  UNION { { << ShardOf(a) >>, << ShardOf(a), WalesShard >>, << WalesShard, ShardOf(a) >> } :
          a \in Arrivals \ { << >> } }

InitManifest ==
  /\ probe \in { [fn |-> "buildManifest", zoneFiles |-> zf, after |-> zf, results |-> << >>] :
                 zf \in ZoneFileLists }
               \cup { [fn |-> "computeBbox", zones |-> ShardOf(a).zones, called |-> FALSE,
                       result |-> NoZone] : a \in BboxArrivals }
  /\ commits = << EmptyTree >>
  /\ branches = [q \in {} |-> NoFile]
  /\ pulls = << >>
  /\ issues = << >>
  /\ run = << >>
  /\ uuids = 0
  /\ config = AutoMergeOn
  /\ maxActive = 0

\* part_000 line 126: const manifest = buildManifest(zoneFiles), called
\* twice on the same array at two times; the function assigns to nothing
\* its argument reaches.
CallBuildManifest ==
  /\ probe.fn = "buildManifest" /\ Len(probe.results) < 2
  /\ probe' = [probe EXCEPT
                 !.results = Append(@, buildManifest(probe.zoneFiles, Len(probe.results) + 1)),
                 !.after = probe.zoneFiles]
  /\ UNCHANGED << commits, branches, pulls, issues, run, uuids, config, maxActive >>

\* part_002 line 44: bbox: computeBbox(data.zones).
CallComputeBbox ==
  /\ probe.fn = "computeBbox" /\ ~probe.called
  /\ probe' = [probe EXCEPT !.called = TRUE, !.result = computeBbox(probe.zones)]
  /\ UNCHANGED << commits, branches, pulls, issues, run, uuids, config, maxActive >>

NextManifest ==
  \/ CallBuildManifest
  \/ CallComputeBbox
SpecManifest == InitManifest /\ [][NextManifest]_vars

\* C13: the regions of buildManifest have one entry per zone file, in the
\* order of the files, the n-th with the n-th file's country, region and
\* zoneCount and the bbox of its zones; the files are as they were, and a
\* second call on them at another time returns the same regions.
C13_RegionsMirrorTheZoneFiles ==
  (probe.fn = "buildManifest") =>
    /\ probe.after = probe.zoneFiles
    /\ \A c \in 1..Len(probe.results) :
         LET regions == probe.results[c].regions
         IN /\ Len(regions) = Len(probe.zoneFiles)
            /\ \A n \in 1..Len(regions) :
                 /\ DOMAIN regions[n] = { "country", "region", "bbox", "zoneCount" }
                 /\ regions[n].country = probe.zoneFiles[n].country
                 /\ regions[n].region = probe.zoneFiles[n].region
                 /\ regions[n].zoneCount = probe.zoneFiles[n].zoneCount
                 /\ regions[n].bbox = computeBbox(probe.zoneFiles[n].zones)
    /\ Len(probe.results) = 2 => probe.results[1].regions = probe.results[2].regions

\* C13 at work: two calls on two zone files of different regions, stamped
\* at different times.
C13_Witness ==
  /\ probe.fn = "buildManifest" /\ Len(probe.results) = 2
  /\ Len(probe.zoneFiles) = 2
  /\ probe.results[1].regions[1].region = "wales"
  /\ probe.results[1].regions[2].zoneCount = 3
  /\ probe.results[1].lastUpdated # probe.results[2].lastUpdated

\* The greatest and the least of a set of numbers.
Greatest(S) == CHOOSE x \in S : \A y \in S : y <= x
Least(S) == CHOOSE x \in S : \A y \in S : x <= y
\* r is v rounded to one decimal place: a multiple of 0.1 at most 0.05
\* from v, in units of 1e-4 degree.
IsRound1(r, v) == r % 1000 = 0 /\ Abs(r - v) <= 500

UnknownZoneUpdates ==
  { i \in Runs :
      /\ issues[i].kind = "update" /\ issues[i].body.kind = "json"
      /\ ZoneUpdatePayload(issues[i].body.data).success
      /\ DOMAIN ZoneUpdatePayload(issues[i].body.data).data.changes # {}
      /\ \A k \in 1..Len(commits) : issues[i].body.data.zoneId \notin TreeIds(commits[k]) }

\* C15: an Update for a zoneId held by no shard file of the target branch
\* reads every zone file, reports not found with the zoneId, makes no
\* branch, commit or pull request, changes the repository in no step, and
\* ends with that comment, the label status:invalid and the issue closed.
C15_UnknownZoneIsNotFound ==
  /\ [](\A i \in UnknownZoneUpdates :
          /\ run[i].writes = 0
          /\ BranchName(i) \notin DOMAIN branches
          /\ \A n \in 1..Len(pulls) : pulls[n].head # BranchName(i)
          /\ run[i].pc \in { "start", "getTree", "findZone", "comment", "label", "close", "done" }
          /\ run[i].pc \in { "comment", "label", "close", "done" } =>
               /\ run[i].msg = [kind |-> "error", message |-> "notfound",
                                id |-> issues[i].body.data.zoneId]
               /\ i \in Active => run[i].reads = Len(ZoneFilePaths(Head_))
          /\ run[i].pc = "done" => Answered(i, run[i].msg, "status:invalid"))
  /\ [][\A i \in UnknownZoneUpdates : run'[i] # run[i] => RepositoryUnchanged]_vars

\* C15 at work: an Update for an unknown zoneId was answered after both
\* zone files of the target branch had been read.
C15_Witness ==
  \E i \in UnknownZoneUpdates :
    /\ run[i].pc = "done" /\ run[i].reads = 2
    /\ "status:invalid" \in issues[i].labels /\ issues[i].state = "closed"

\* The updates whose changes hold no key of the update schema: none at
\* all, or only id, verified, version and keys the schema does not know.
EmptyChangeUpdates ==
  { i \in Runs :
      /\ issues[i].kind = "update" /\ issues[i].body.kind = "json"
      /\ { "zoneId", "changes" } \subseteq DOMAIN issues[i].body.data
      /\ (DOMAIN issues[i].body.data.changes) \cap SubmissionKeys = {} }

\* C16: an Update whose changes are empty after validation reads no zone
\* file, makes no branch, commit or pull request, changes the repository in
\* no step, and ends with the no-changes comment, the label status:invalid
\* and the issue closed.
C16_EmptyChangesAreInvalid ==
  /\ [](\A i \in EmptyChangeUpdates :
          /\ run[i].reads = 0 /\ run[i].writes = 0
          /\ BranchName(i) \notin DOMAIN branches
          /\ \A n \in 1..Len(pulls) : pulls[n].head # BranchName(i)
          /\ run[i].pc \in { "start", "comment", "label", "close", "done" }
          /\ run[i].pc # "start" => run[i].msg = [kind |-> "error", message |-> "nochanges"]
          /\ run[i].pc = "done" => Answered(i, run[i].msg, "status:invalid"))
  /\ [][\A i \in EmptyChangeUpdates : run'[i] # run[i] => RepositoryUnchanged]_vars

\* C16 at work: an Update of a zone the target branch holds, with changes
\* of id, verified, version and an unknown key only, was answered as
\* invalid and the zone is at version 1.
C16_Witness ==
  \E i \in EmptyChangeUpdates :
    /\ DOMAIN issues[i].body.data.changes = { "id", "verified", "version", "nickname" }
    /\ issues[i].body.data.zoneId \in TreeIds(Head_)
    /\ run[i].pc = "done" /\ "status:invalid" \in issues[i].labels
    /\ \A rec \in TreeRecords(Head_) : rec.record.version = 1

\* ------------------------------------------------ every configuration
\* One workflow run at a time, under each state of the two config files.
InitAutoMerge ==
  InitWith(1, { AutoMergeOn, AutoMergeOff, NoSettings, NoConfig, NoEmails })
SpecAutoMerge == InitAutoMerge /\ [][Next]_vars

\* settings.json of the target branch reads autoMerge: true.
AutoMergeSet == config.settings # NoFile /\ config.settings.autoMerge
\* The Email field of issue i is on the list of auto-merge-emails.json.
EmailTrusted(i) ==
  /\ issues[i].email # "none"
  /\ config.emails # NoFile
  /\ \E n \in 1..Len(config.emails.list) : config.emails.list[n] = issues[i].email
\* The runs that opened a pull request.
WithPull == { i \in Runs : run[i].pr # 0 }

\* C17: the pull request of a submission is merged by its run only if
\* settings.json has autoMerge true or the issue's e-mail is on the trusted
\* list; when neither holds, also with a config file missing, the run
\* changes the target branch in no step and ends with the pull request
\* open, the for-review comment, status:completed and the issue closed.
C17_SubmissionMergesOnlyIfEligible ==
  /\ [](\A i \in WithPull :
          issues[i].kind = "submission" =>
            /\ WasMerged(i) => AutoMergeSet \/ EmailTrusted(i)
            /\ ~(AutoMergeSet \/ EmailTrusted(i)) =>
                 /\ ~run[i].shouldAutoMerge
                 /\ run[i].pc \in { "getSettings", "getEmails", "comment", "label", "close", "done" }
                 /\ run[i].pc = "done" =>
                      Answered(i, [kind |-> "review", pr |-> run[i].pr], "status:completed"))
  /\ [][\A i \in Runs :
          (issues[i].kind = "submission" /\ ~(AutoMergeSet \/ EmailTrusted(i))
             /\ run'[i] # run[i]) => commits' = commits]_vars

\* C17 at work: with both config files missing, a submission that gave the
\* e-mail of the list ended with its pull request open and the target
\* branch as it was.
C17_Witness ==
  /\ config = NoConfig
  /\ \E i \in WithPull :
       /\ issues[i].kind = "submission" /\ issues[i].email = TrustedEmail
       /\ run[i].pc = "done" /\ ~pulls[run[i].pr].merged
       /\ Len(commits) = 1

\* C18: a finished update run that opened a pull request decided to merge
\* it exactly when settings.json has autoMerge true or the issue's e-mail
\* is on the trusted list, which is when a submission is merged.
C18_UpdateDecidesLikeSubmission ==
  \A i \in WithPull :
    (issues[i].kind = "update" /\ run[i].pc = "done") =>
      /\ run[i].shouldAutoMerge <=> (AutoMergeSet \/ EmailTrusted(i))
      /\ WasMerged(i) <=> (AutoMergeSet \/ EmailTrusted(i))

\* The decision of processSubmission, for comparison: a finished
\* submission run decided by settings.json or the trusted list.
SubmissionDecidesByConfig ==
  \A i \in WithPull :
    (issues[i].kind = "submission" /\ run[i].pc = "done") =>
      /\ run[i].shouldAutoMerge <=> (AutoMergeSet \/ EmailTrusted(i))
      /\ WasMerged(i) <=> (AutoMergeSet \/ EmailTrusted(i))

\* ------------------------------------------------ nameSimilarity alone
\* The pieces of the names: three spellings of one word, a second word, a
\* third, and whitespace.
Pieces == { "Car", "CAR", "car", "Park", "b", " " }
RECURSIVE NamesOfLength(_)
NamesOfLength(n) ==
  IF n = 0 THEN { << >> }
  ELSE { Append(name, p) : name \in NamesOfLength(n - 1), p \in Pieces }
Names == UNION { NamesOfLength(n) : n \in 0..MaxPieces }

InitSimilarity ==
  /\ probe \in { [fn |-> "nameSimilarity", a |-> a, b |-> b, called |-> FALSE,
                  result |-> << 0, 1 >>, swapped |-> FALSE, reverse |-> << 0, 1 >>] :
                 a \in Names, b \in Names }
  /\ commits = << EmptyTree >>
  /\ branches = [q \in {} |-> NoFile]
  /\ pulls = << >>
  /\ issues = << >>
  /\ run = << >>
  /\ uuids = 0
  /\ config = AutoMergeOn
  /\ maxActive = 0

\* Line 65: nameSimilarity(candidate.name, zone.name).
CallNameSimilarity ==
  /\ probe.fn = "nameSimilarity" /\ ~probe.called
  /\ probe' = [probe EXCEPT !.called = TRUE, !.result = nameSimilarity(probe.a, probe.b)]
  /\ UNCHANGED << commits, branches, pulls, issues, run, uuids, config, maxActive >>

\* The same call with the two names exchanged.
CallNameSimilaritySwapped ==
  /\ probe.fn = "nameSimilarity" /\ probe.called /\ ~probe.swapped
  /\ probe' = [probe EXCEPT !.swapped = TRUE, !.reverse = nameSimilarity(probe.b, probe.a)]
  /\ UNCHANGED << commits, branches, pulls, issues, run, uuids, config, maxActive >>

NextSimilarity ==
  \/ CallNameSimilarity
  \/ CallNameSimilaritySwapped
SpecSimilarity == InitSimilarity /\ [][NextSimilarity]_vars

\* The spellings of one word in either case.
Spellings(w) == IF w \in { "Car", "CAR", "car" } THEN { "Car", "CAR", "car" } ELSE { w }
\* Two names that differ in letter case at most.
SameButForCase(a, b) ==
  Len(a) = Len(b) /\ \A n \in 1..Len(a) : b[n] \in Spellings(a[n])
\* The fraction p equals num / den.
IsFraction(p, num, den) == p[2] > 0 /\ den > 0 /\ p[1] * den = num * p[2]

\* C20: with A and B the sets of lowercased tokens of a and b,
\* nameSimilarity(a, b) is 1 when both are empty, 0 when exactly one is,
\* and |A n B| / |A u B| otherwise; it is 1 for two names that differ only
\* in letter case, and the same with a and b exchanged.
C20_NameSimilarityIsJaccard ==
  (probe.fn = "nameSimilarity" /\ probe.called) =>
    LET A == Tokens(probe.a)
        B == Tokens(probe.b)
    IN /\ (A = {} /\ B = {}) => probe.result = << 1, 1 >>
       /\ ((A = {}) # (B = {})) => probe.result = << 0, 1 >>
       /\ (A # {} /\ B # {}) =>
            IsFraction(probe.result, Cardinality(A \cap B), Cardinality(A \cup B))
       /\ SameButForCase(probe.a, probe.b) => IsFraction(probe.result, 1, 1)
       /\ probe.swapped => probe.reverse = probe.result

\* C20 at work: two names of three words that differ in the case of one
\* word scored 1, both ways round.
C20_Witness ==
  /\ probe.fn = "nameSimilarity" /\ probe.swapped
  /\ probe.a = << "Car", "Park", "b" >> /\ probe.b = << "CAR", "Park", "b" >>
  /\ probe.result = << 3, 3 >>

\* The labels that end a run, and the comments that tell its outcome.
Terminal == { "status:invalid", "status:duplicate", "status:completed", "status:error" }
Outcome(i) ==
  /\ issues[i].labels \cap Terminal # {}
  /\ Len(issues[i].comments) >= 1

\* C19: a run that has applied status:processing goes on to post a
\* comment and to apply status:invalid, status:duplicate, status:completed
\* or status:error, whether its steps succeed or the parse, the
\* validation, a read, the branch creation, the commit, the creation of
\* the pull request or the merge fails.
C19_EveryRunReportsAnOutcome ==
  []<>(\A i \in Runs : "status:processing" \in issues[i].labels => Outcome(i))

\* C19 at work: the creation of a pull request was rejected, and the run
\* ended with the internal-error comment and status:error.
C19_Witness ==
  \E i \in Runs :
    /\ run[i].pc = "done" /\ run[i].failed
    /\ issues[i].comments = << [kind |-> "internal", message |-> "createPr"] >>
    /\ issues[i].labels = { "status:processing", "status:error" }
    /\ issues[i].state = "open"

\* ------------------------------------------------ the schema on its own
\* Radii around the two ends of the range the README gives (1-5000).
Radii == { 0 - 5, 0, 1, 50, 5000, 5001, 6000 }
\* Submissions that differ in radius, latitude, country and the presence of
\* keys the schema does not know.
ValidateInputs ==
  { [BaseZone EXCEPT !.radius = r, !.center = Pt(lat, 0), !.country = c] :
      r \in Radii, lat \in { 0, LatMax + 1 }, c \in { "GB", "GBR" } }
  \cup { Spread([BaseZone EXCEPT !.radius = r], [id |-> << "mine" >>, nickname |-> << "Nick" >>]) :
           r \in Radii }
\* The text of a file or of an argument: JSON of a value, or no JSON.
Texts == { Json(d) : d \in ValidateInputs } \cup { [kind |-> "badjson"] }
\* process.argv[2]: absent, a JSON string, or the path of a file that is
\* there with some text or is not there.
Arguments ==
  { [arg |-> "none"] }
  \cup { [arg |-> "inline", text |-> t] : t \in Texts }
  \cup { [arg |-> "path", file |-> t] : t \in Texts \cup { NoFile } }

\* validate-zone.mjs with line 47 exiting with status 0.
validateZoneExitZero(argv) ==
  [exit |-> 0, stdout |-> << >>, stderr |-> << >>]

\* validate-zone.mjs, lines 12-48: the exit status and the lines printed.
validateZone(argv) ==
  LET raw == IF argv.arg = "inline" THEN argv.text
             ELSE IF argv.file # NoFile THEN argv.file
             ELSE [kind |-> "badjson"]
      result == ParkingZoneSubmission(raw.data)
  IN IF argv.arg = "none"
       THEN [exit |-> 1, stdout |-> << >>, stderr |-> << [line |-> "usage"] >>]
     ELSE IF raw.kind # "json"
       THEN [exit |-> 1, stdout |-> << >>, stderr |-> << [line |-> "invalid json"] >>]
     ELSE IF result.success
       THEN [exit |-> 0,
             stdout |-> << [line |-> "valid"], [line |-> "record", data |-> result.data] >>,
             stderr |-> << >>]
     ELSE [exit |-> 1, stdout |-> << >>,
           stderr |-> << [line |-> "validation errors"] >>
                      \o [n \in 1..Len(result.issues) |->
                            [line |-> "issue", path |-> result.issues[n]]]]

InitValidate ==
  /\ probe \in { [fn |-> "safeParse", zoneData |-> d, called |-> FALSE, result |-> NoZone] :
                 d \in ValidateInputs }
               \cup { [fn |-> "validate-zone", argv |-> a, called |-> FALSE, result |-> NoZone] :
                      a \in Arguments }
  /\ commits = << EmptyTree >>
  /\ branches = [q \in {} |-> NoFile]
  /\ pulls = << >>
  /\ issues = << >>
  /\ run = << >>
  /\ uuids = 0
  /\ config = AutoMergeOn
  /\ maxActive = 0

\* part_000 line 203: ParkingZoneSubmission.safeParse(zoneData).
CallSafeParse ==
  /\ probe.fn = "safeParse" /\ ~probe.called
  /\ probe' = [probe EXCEPT !.called = TRUE, !.result = ParkingZoneSubmission(probe.zoneData)]
  /\ UNCHANGED << commits, branches, pulls, issues, run, uuids, config, maxActive >>

\* node scripts/validate-zone.mjs <argument>
CallValidateZone ==
  /\ probe.fn = "validate-zone" /\ ~probe.called
  /\ probe' = [probe EXCEPT !.called = TRUE, !.result = validateZone(probe.argv)]
  /\ UNCHANGED << commits, branches, pulls, issues, run, uuids, config, maxActive >>

NextValidate ==
  \/ CallSafeParse
  \/ CallValidateZone
SpecValidate == InitValidate /\ [][NextValidate]_vars

\* C21: a submission is accepted by the schema only with a radius from 1
\* to 5000, and one whose radius is below 1 or above 5000 is rejected with
\* an issue on radius.
C21_RadiusFrom1To5000 ==
  (probe.fn = "safeParse" /\ probe.called) =>
    LET radius == probe.zoneData.radius
    IN /\ probe.result.success => (radius >= 1 /\ radius <= 5000)
       /\ (radius < 1 \/ radius > 5000) =>
            /\ ~probe.result.success
            /\ \E n \in 1..Len(probe.result.issues) : probe.result.issues[n] = << "radius" >>

\* What the schema does check of a radius: a radius that is not positive
\* is rejected with an issue on radius, and every positive one passes.
RadiusPositive ==
  (probe.fn = "safeParse" /\ probe.called) =>
    LET radius == probe.zoneData.radius
        onRadius == probe.result.success = FALSE
                    /\ \E n \in 1..Len(probe.result.issues) : probe.result.issues[n] = << "radius" >>
    IN onRadius <=> radius <= 0

\* The text the CLI parses: the file's when the argument names a file, the
\* argument itself otherwise.
TextOf(argv) ==
  IF argv.arg = "inline" THEN argv.text
  ELSE IF argv.file # NoFile THEN argv.file
  ELSE [kind |-> "badjson"]
\* The argument holds JSON of a value that satisfies the Submission schema.
Satisfies(argv) ==
  /\ argv.arg # "none"
  /\ TextOf(argv).kind = "json"
  /\ ViolatedFields(TextOf(argv).data) = {}
\* The record with the schema's keys only and its two defaults filled in.
IsNormalized(out, data) ==
  /\ DOMAIN out = ((DOMAIN data) \cap SubmissionKeys) \cup { "freeMinutes", "currency" }
  /\ \A k \in (DOMAIN data) \cap SubmissionKeys : out[k] = data[k]
  /\ ~Has(data, "freeMinutes") => out.freeMinutes = 0
  /\ ~Has(data, "currency") => out.currency = "GBP"

\* C22: validate-zone exits with 0 exactly when its argument holds JSON
\* that satisfies the Submission schema, and then prints the normalized
\* record; with no argument, with text that is no JSON and with a schema
\* violation it exits with a status other than 0, and on a violation it
\* prints one line for each field in error.
C22_ExitZeroIffValid ==
  (probe.fn = "validate-zone" /\ probe.called) =>
    LET out == probe.result
        argv == probe.argv
        paths == { out.stderr[n].path : n \in 2..Len(out.stderr) }
    IN /\ out.exit = 0 <=> Satisfies(argv)
       /\ out.exit = 0 =>
            /\ out.stdout[Len(out.stdout)].line = "record"
            /\ IsNormalized(out.stdout[Len(out.stdout)].data, TextOf(argv).data)
       /\ out.exit # 0 => out.stdout = << >> /\ Len(out.stderr) >= 1
       /\ (argv.arg # "none" /\ TextOf(argv).kind = "json" /\ ~Satisfies(argv)) =>
            /\ Len(out.stderr) = 1 + Cardinality(ViolatedFields(TextOf(argv).data))
            /\ paths = ViolatedFields(TextOf(argv).data)

\* C22 at work: a file whose record has three fields in error made the CLI
\* exit with 1 after the heading and three lines.
C22_Witness ==
  /\ probe.fn = "validate-zone" /\ probe.called
  /\ probe.argv.arg = "path" /\ probe.argv.file # NoFile
  /\ probe.argv.file.kind = "json"
  /\ probe.result.exit = 1
  /\ Len(probe.result.stderr) = 4

\* C23: the record an accepted Update stores has every key of the old
\* record, and each key the payload's changes do not name, other than
\* version, with the old value; freeMinutes and currency that the changes
\* leave out stay as they were, whatever the schema's defaults.
C23_UnnamedFieldsKeepTheirValue ==
  \A i \in CommittedUpdates :
    LET u == UpdateOf(i)
        old == RecordOf(u.old, u.id)
        new == RecordOf(u.new, u.id)
    IN /\ DOMAIN old \subseteq DOMAIN new
       /\ \A k \in (DOMAIN old) \ ((DOMAIN u.changes) \cup { "version" }) : new[k] = old[k]
       /\ \A k \in { "freeMinutes", "currency" } \ DOMAIN u.changes :
            /\ Has(old, k) => new[k] = old[k]
            /\ ~Has(old, k) => ~Has(new, k)

\* C23 at work: a merged Update of the center of a record with 30 free
\* minutes and the currency EUR left both as they were.
C23_Witness ==
  \E i \in CommittedUpdates :
    LET u == UpdateOf(i)
    IN /\ WasMerged(i) /\ run[i].pc = "done"
       /\ DOMAIN u.changes = { "center" }
       /\ RecordOf(u.old, u.id).freeMinutes = 30
       /\ RecordOf(Head_.shards[u.path], u.id).freeMinutes = 30
       /\ RecordOf(Head_.shards[u.path], u.id).currency = "EUR"
       /\ RecordOf(Head_.shards[u.path], u.id).center # RecordOf(u.old, u.id).center

\* The records of the bucket under key, none if the shard has no such key.
BucketOf(shard, key) ==
  IF HasKey(shard.zones, key) THEN shard.zones[KeyIndex(shard.zones, key)].bucket ELSE << >>
RECURSIVE Without(_, _)
\* A bucket's records other than id's, in their order.
Without(bucket, id) ==
  IF bucket = << >> THEN << >>
  ELSE IF Head(bucket).id = id THEN Without(Tail(bucket), id)
  ELSE << Head(bucket) >> \o Without(Tail(bucket), id)
\* From shard old (no file: none) to shard new, the records other than id's
\* are as they were: each in its bucket, in the order it had there.
OthersKept(old, new, id) ==
  \A key \in { new.zones[b].key : b \in 1..Len(new.zones) }
            \cup (IF old = NoFile THEN {} ELSE { old.zones[b].key : b \in 1..Len(old.zones) }) :
    Without(BucketOf(new, key), id)
      = (IF old = NoFile THEN << >> ELSE Without(BucketOf(old, key), id))
\* The other shard files of the run's branch are those of the commit it
\* was cut from.
OtherFilesKept(i, path) ==
  LET b == branches[BranchName(i)]
  IN /\ DOMAIN b.tree.shards = (DOMAIN commits[b.base].shards) \cup { path }
     /\ \A q \in (DOMAIN b.tree.shards) \ { path } : b.tree.shards[q] = commits[b.base].shards[q]
\* id's record is the last of the bucket under key, and nowhere else.
LastOf(shard, key, id) ==
  /\ KeysOf(shard, id) = { key }
  /\ PositionsOf(shard, id) = { << KeyIndex(shard.zones, key), Len(BucketOf(shard, key)) >> }

\* C24: the shard a Create or an Update commits differs from the one it
\* read in the target record only: the other records are in their buckets
\* in their order, the other shard files are as they were, a created or
\* relocated record is the last of its bucket, and a record updated within
\* its bucket is at the index it had.
C24_OnlyTheTargetRecordChanges ==
  /\ \A i \in CommittedSubmissions :
       LET c == CreateOf(i)
           old == FileAt(commits[c.base], c.path)
       IN \E pos \in c.added :
            LET id == At(c.new, pos).id
            IN /\ c.added = { pos }
               /\ OthersKept(old, c.new, id)
               /\ OtherFilesKept(i, c.path)
               /\ LastOf(c.new, c.new.zones[pos[1]].key, id)
  /\ \A i \in CommittedUpdates :
       LET u == UpdateOf(i)
           newKey == CHOOSE k \in KeysOf(u.new, u.id) : TRUE
       IN /\ OthersKept(u.old, u.new, u.id)
          /\ OtherFilesKept(i, u.path)
          /\ IF newKey # u.oldKey THEN LastOf(u.new, newKey, u.id)
             ELSE FindIndex(BucketOf(u.new, newKey), u.id)
                    = FindIndex(BucketOf(u.old, u.oldKey), u.id)

\* C24 at work: an Update within its bucket of the first of two records
\* of the bucket was merged, with the record still the first.
C24_Witness ==
  \E i \in CommittedUpdates :
    LET u == UpdateOf(i)
    IN /\ WasMerged(i) /\ run[i].pc = "done"
       /\ Len(BucketOf(u.old, u.oldKey)) = 2
       /\ FindIndex(BucketOf(u.old, u.oldKey), u.id) = 1
       /\ FindIndex(BucketOf(Head_.shards[u.path], u.oldKey), u.id) = 1
       /\ RecordOf(Head_.shards[u.path], u.id).version = 2

\* C25: a shard file changes on the target branch only in the step that
\* merges a pull request, and then to what the merge of that request's
\* branch gives; a run commits its shard to the branch named after its
\* issue, which was cut at the head getRef read, after creating the branch
\* and before opening the pull request from it.
C25_ShardsReachTheTargetByMerge ==
  /\ [](\A i \in Runs :
          /\ run[i].writes >= 1 => BranchName(i) \in DOMAIN branches
          /\ run[i].pr # 0 =>
               /\ Committed(i)
               /\ pulls[run[i].pr].head =
                    << IF issues[i].kind = "submission" THEN "zone-submission"
                       ELSE "zone-update", "dev", i >>
               /\ pulls[run[i].pr].head \in DOMAIN branches
               /\ pulls[run[i].pr].base = DEFAULT_BRANCH
               /\ branches[BranchName(i)].tree.shards[run[i].filePath] = run[i].existingContent)
  /\ [](DOMAIN branches \subseteq { BranchName(i) : i \in Runs })
  /\ [][\A i \in Runs :
          /\ (run[i].pc = "getRef" /\ run'[i].pc = "deleteRef") => run'[i].baseSha = Len(commits)
          /\ (run[i].pc = "createRef" /\ run'[i].pc = "commit") =>
               /\ branches'[BranchName(i)].base = run[i].baseSha
               /\ branches'[BranchName(i)].tree = commits[run[i].baseSha]
               /\ run[i].writes = 0 /\ run[i].pr = 0
          /\ (run'[i].writes # run[i].writes) =>
               /\ commits' = commits
               /\ run[i].pr = 0
               /\ BranchName(i) \in DOMAIN branches]_vars
  /\ [][Head_'.shards # Head_.shards =>
          \E i \in Runs :
            /\ run[i].pc = "merge" /\ run[i].pr # 0
            /\ ~pulls[run[i].pr].merged /\ pulls'[run[i].pr].merged
            /\ LET b == branches[pulls[run[i].pr].head]
               IN commits' = Append(commits, MergedTree(commits[b.base], Head_, b.tree))]_vars

\* C25 at work: a run's shard is on its branch and in its open pull
\* request, and the target branch has no shard file yet.
C25_Witness ==
  \E i \in Runs :
    /\ run[i].pr # 0 /\ ~pulls[run[i].pr].merged
    /\ branches[BranchName(i)].tree.shards # Head_.shards
    /\ Head_.shards = EmptyTree.shards
    /\ Len(commits) = 1

\* Every issue so far is a submission, and every Create that was accepted
\* has been merged by its run: what settings.json with autoMerge: true
\* gives when one run is executed at a time.
CreatesOnlyEachMerged ==
  /\ config = AutoMergeOn
  /\ \A i \in Runs : issues[i].kind = "submission"

\* C26: while submissions are processed one at a time and each accepted
\* Create is merged before the next, no two records at different places
\* of a shard of the target branch satisfy Rule A or Rule B with each
\* other; and a submission whose payload an earlier, merged one carried
\* writes nothing and ends as a duplicate.
C26_NoTwoRecordsAreDuplicates ==
  CreatesOnlyEachMerged =>
    /\ \A k \in 1..Len(commits) : \A q \in DOMAIN commits[k].shards :
         LET shard == commits[k].shards[q]
         IN \A p1, p2 \in Positions(shard) :
              p1 # p2 => /\ ~RuleA(At(shard, p1), At(shard, p2))
                         /\ ~RuleB(At(shard, p1), At(shard, p2))
    /\ \A i, j \in Runs :
         (i < j /\ issues[i].body = issues[j].body /\ WasMerged(i)) =>
           /\ run[j].writes = 0 /\ run[j].pr = 0
           /\ run[j].pc \in { "start", "readShard", "comment", "label", "close", "done" }
           /\ run[j].pc = "done" =>
                /\ "status:duplicate" \in issues[j].labels
                /\ issues[j].state = "closed"
                /\ BranchName(j) \notin DOMAIN branches

\* C26 at work: a payload was merged, the same payload was then rejected
\* as a duplicate, and a third submission was merged into the same shard,
\* which holds two records.
C26_Witness ==
  /\ CreatesOnlyEachMerged
  /\ Len(issues) = 3 /\ Active = {}
  /\ issues[1].body = issues[2].body
  /\ WasMerged(1) /\ WasMerged(3)
  /\ "status:duplicate" \in issues[2].labels
  /\ CreateOf(1).path = CreateOf(3).path
  /\ Cardinality(Positions(Head_.shards[CreateOf(1).path])) = 2

\* The submissions whose payload passed the schema.
ValidSubmissions ==
  { i \in Runs : /\ issues[i].kind = "submission" /\ issues[i].body.kind = "json"
                 /\ ViolatedFields(issues[i].body.data) = {} }
\* Two submissions for one region that satisfy Rule A or Rule B with each
\* other.
MutualDuplicates(i, j) ==
  LET a == issues[i].body.data
      b == issues[j].body.data
  IN /\ a.country = b.country /\ a.region = b.region
     /\ RuleA(a, b) \/ RuleB(a, b)

\* C27: of two submissions for one region that are duplicates of each
\* other, at most one has a pull request, however their runs interleave
\* and whether or not the first one's pull request has been merged.
C27_OnePullRequestPerDuplicate ==
  \A i, j \in ValidSubmissions :
    (i # j /\ MutualDuplicates(i, j)) => ~(run[i].pr # 0 /\ run[j].pr # 0)

\* The field constraints of the full ParkingZone schema on a stored record.
SatisfiesParkingZone(zone) ==
  /\ { "id", "name", "center", "radius", "enforcementType", "enforcementMethod",
       "country", "region", "version" } \subseteq DOMAIN zone
  /\ zone.name # << >>
  /\ DOMAIN zone.center = { "lat", "lng" }
  /\ zone.center.lat \in (0 - LatMax)..LatMax
  /\ zone.center.lng \in (0 - LngMax)..LngMax
  /\ zone.radius > 0
  /\ zone.enforcementType \in EnforcementType
  /\ zone.enforcementMethod \in EnforcementMethod
  /\ Len(zone.country) = 2
  /\ Len(zone.region) >= 1
  /\ zone.version \in Nat \ { 0 }
  /\ Has(zone, "freeMinutes") => zone.freeMinutes >= 0
  /\ Has(zone, "currency") => Len(zone.currency) = 3
  /\ Has(zone, "verified") => zone.verified \in BOOLEAN

\* C28: every record of every shard file, on the target branch and on the
\* branches of the issues, satisfies the field constraints of the full
\* ParkingZone schema, the merged record of an Update included.
C28_StoredRecordsSatisfyTheSchema ==
  \A shard \in AllShards : \A pos \in Positions(shard) :
    SatisfiesParkingZone(At(shard, pos))
\* A merged Update gave a stored record a new name and a new region and
\* raised its version; the record it left is valid.
C28_Witness ==
  \E i \in CommittedUpdates :
    /\ WasMerged(i)
    /\ UpdateOf(i).changes = Rename
    /\ \E shard \in { Head_.shards[q] : q \in DOMAIN Head_.shards } :
         \E pos \in PositionsOf(shard, UpdateOf(i).id) :
           /\ At(shard, pos).name = << "Renamed" >>
           /\ At(shard, pos).version >= 2
           /\ SatisfiesParkingZone(At(shard, pos))

\* C29: every shard file, on the target branch and on the branches of the
\* issues, holds at least one record and has no key with an empty bucket,
\* and every zone file read for buildManifest holds at least one record.
C29_NoEmptyShardAndNoEmptyBucket ==
  /\ \A shard \in AllShards :
       /\ Positions(shard) # {}
       /\ \A b \in 1..Len(shard.zones) : Len(shard.zones[b].bucket) >= 1
  /\ \A i \in Runs : \A k \in 1..Len(run[i].zoneFiles) :
       Len(Flatten(run[i].zoneFiles[k].zones)) >= 1
\* A merged Update moved the only record of a bucket to another cell, the
\* key of the old bucket is gone, and the run has read the zone files from
\* which it builds the manifest.
C29_Witness ==
  \E i \in CommittedUpdates :
    /\ WasMerged(i)
    /\ UpdateOf(i).relocates
    /\ Len(Bucket(UpdateOf(i).old.zones, UpdateOf(i).oldKey)) = 1
    /\ ~HasKey(UpdateOf(i).new.zones, UpdateOf(i).oldKey)
    /\ run[i].pc = "manifestWrite"
    /\ Len(run[i].zoneFiles) >= 1

\* ------------------------------------------ computeBbox in binary64 numbers
\* A JavaScript number is an IEEE 754 binary64 value and every operation of
\* computeBbox rounds its exact result to the nearest such value, a tie
\* going to the even significand.  A finite number is modelled exactly, as
\* a sign and a magnitude counted in units of 2^-57, the last place of the
\* number 0.05; every value met below is a multiple of that unit and less
\* than 2^11.  A magnitude is three digits to the base 2^24, the least
\* significant first.
SignificandBits == 53
UnitBits == 57
Base == 16777216

Zero == << 0, 0, 0 >>
\* Digits brought back into 0..Base-1, the carries (or borrows) going up.
Carry(m) ==
  LET d2 == m[2] + (m[1] \div Base)
  IN << m[1] % Base, d2 % Base, m[3] + (d2 \div Base) >>
BAdd(a, b) == Carry(<< a[1] + b[1], a[2] + b[2], a[3] + b[3] >>)
\* a - b for a >= b.
BSub(a, b) == Carry(<< a[1] - b[1], a[2] - b[2], a[3] - b[3] >>)
BTimes10(a) == Carry(<< 10 * a[1], 10 * a[2], 10 * a[3] >>)
BLess(a, b) ==
  \/ a[3] < b[3]
  \/ a[3] = b[3] /\ a[2] < b[2]
  \/ a[3] = b[3] /\ a[2] = b[2] /\ a[1] < b[1]
\* a * 2^n for n in 0..23.
BShl(a, n) ==
  LET cut == 2 ^ (24 - n)
  IN << (a[1] % cut) * (2 ^ n),
        (a[2] % cut) * (2 ^ n) + (a[1] \div cut),
        a[3] * (2 ^ n) + (a[2] \div cut) >>
\* Quotient and remainder of a magnitude divided by ten, by long division.
BDiv10(a) ==
  LET c2 == (a[3] % 10) * Base + a[2]
      c1 == (c2 % 10) * Base + a[1]
  IN [q |-> << c1 \div 10, c2 \div 10, a[3] \div 10 >>, r |-> c1 % 10]
\* The number of binary digits of a digit, and of a magnitude.
BitLength(v) == CHOOSE k \in 0..24 : v < 2 ^ k /\ (k = 0 \/ v >= 2 ^ (k - 1))
MagLength(a) ==
  IF a[3] > 0 THEN 48 + BitLength(a[3])
  ELSE IF a[2] > 0 THEN 24 + BitLength(a[2]) ELSE BitLength(a[1])

\* The nearest binary64 magnitude to mag (plus a little, if sticky): the
\* binary digits below the 53rd from the top are dropped, and the rest
\* goes up by one when they are more than half of its last place, or
\* exactly half with the last kept digit odd.  At most 15 digits are
\* dropped, all of the lowest digit to the base 2^24.
RoundToDouble(mag, sticky) ==
  IF MagLength(mag) <= SignificandBits THEN mag
  ELSE LET step == 2 ^ (MagLength(mag) - SignificandBits)
           low == mag[1] % step
           odd == (mag[1] \div step) % 2 = 1
           up == \/ 2 * low > step
                 \/ 2 * low = step /\ (sticky \/ odd)
       IN Carry(<< mag[1] - low + (IF up THEN step ELSE 0), mag[2], mag[3] >>)

Double(neg, mag) == [neg |-> neg /\ mag # Zero, mag |-> mag]
\* The number of an integer literal.
FromInt(n) == Double(n < 0, << 0, 0, Abs(n) * (2 ^ (UnitBits - 48)) >>)
RECURSIVE HexVal(_)
HexVal(digits) ==
  IF digits = << >> THEN 0
  ELSE 16 * HexVal(SubSeq(digits, 1, Len(digits) - 1)) + digits[Len(digits)]
\* The number written 0x1.<13 hex digits>p<p>, for p in -5..7.
HexFloat(neg, digits, p) ==
  Double(neg, BShl(<< HexVal(SubSeq(digits, 8, 13)), HexVal(SubSeq(digits, 2, 7)),
                      16 + digits[1] >>,
                   p - 52 + UnitBits))

\* x + y and x - y, rounded.
DAdd(x, y) ==
  IF x.neg = y.neg THEN Double(x.neg, RoundToDouble(BAdd(x.mag, y.mag), FALSE))
  ELSE IF BLess(x.mag, y.mag) THEN Double(y.neg, RoundToDouble(BSub(y.mag, x.mag), FALSE))
  ELSE Double(x.neg, RoundToDouble(BSub(x.mag, y.mag), FALSE))
DSub(x, y) == DAdd(x, Double(~y.neg, y.mag))
\* x * 10, rounded.
DTimes10(x) == Double(x.neg, RoundToDouble(BTimes10(x.mag), FALSE))
\* Math.round(x): the nearest integer, a tie going towards +Infinity.
MathRound(x) ==
  LET ones == 2 ^ (UnitBits - 48)
      whole == x.mag[3] \div ones
      half == (x.mag[3] \div (ones \div 2)) % 2 = 1
      below == x.mag[3] % (ones \div 2) # 0 \/ x.mag[2] # 0 \/ x.mag[1] # 0
  IN IF ~x.neg THEN (IF half THEN whole + 1 ELSE whole)
     ELSE IF half /\ below THEN 0 - (whole + 1) ELSE 0 - whole
\* n / 10 for an integer n, rounded.
DOver10(n) ==
  LET d == BDiv10(FromInt(n).mag)
  IN Double(n < 0, RoundToDouble(d.q, d.r # 0))
\* x < y and x <= y.
DLess(x, y) ==
  IF x.neg /\ ~y.neg THEN TRUE
  ELSE IF ~x.neg /\ y.neg THEN FALSE
  ELSE IF x.neg THEN BLess(y.mag, x.mag) ELSE BLess(x.mag, y.mag)
DLeq(x, y) == ~DLess(y, x)

\* const pad = 0.05 (line 24): 0x1.999999999999ap-5.
Pad == HexFloat(FALSE, << 9, 9, 9, 9, 9, 9, 9, 9, 9, 9, 9, 9, 10 >>, 0 - 5)

RECURSIVE BboxScanDouble(_, _)
\* Lines 14-22 on binary64 centers.
BboxScanDouble(records, box) ==
  IF records = << >> THEN box
  ELSE LET c == Head(records).center
       IN BboxScanDouble(Tail(records),
            [north |-> IF DLess(box.north, c.lat) THEN c.lat ELSE box.north,
             south |-> IF DLess(c.lat, box.south) THEN c.lat ELSE box.south,
             east |-> IF DLess(box.east, c.lng) THEN c.lng ELSE box.east,
             west |-> IF DLess(c.lng, box.west) THEN c.lng ELSE box.west])

\* computeBbox, lines 11-31, operation by operation:
\* Math.round((north + pad) * 10) / 10 and its three likes.
computeBboxDouble(zones) ==
  LET box == BboxScanDouble(Flatten(zones),
               [north |-> FromInt(0 - 90), south |-> FromInt(90),
                east |-> FromInt(0 - 180), west |-> FromInt(180)])
  IN [north |-> DOver10(MathRound(DTimes10(DAdd(box.north, Pad)))),
      south |-> DOver10(MathRound(DTimes10(DSub(box.south, Pad)))),
      east |-> DOver10(MathRound(DTimes10(DAdd(box.east, Pad)))),
      west |-> DOver10(MathRound(DTimes10(DSub(box.west, Pad))))]

\* -------------------------------------------- computeBbox on binary64 centers
\* The latitudes of the centers, as the numbers JSON.parse yields:
\*   55.9533 = 0x1.bfa05bc01a36ep+5
\*   -36.8442 = -0x1.26c0ebedfa440p+5
\*   0.3 = 0x1.3333333333333p-2
\*   0.49999999999999994, the number next below 0.5 = 0x1.fffffffffffffp-2
\*   2.0999999999999996, the number next below 2.1 = 0x1.0ccccccccccccp+1
LatDoubles ==
  { HexFloat(FALSE, << 11, 15, 10, 0, 5, 11, 12, 0, 1, 10, 3, 6, 14 >>, 5),
    HexFloat(TRUE, << 2, 6, 12, 0, 14, 11, 14, 13, 15, 10, 4, 4, 0 >>, 5),
    HexFloat(FALSE, << 3, 3, 3, 3, 3, 3, 3, 3, 3, 3, 3, 3, 3 >>, 0 - 2),
    HexFloat(FALSE, << 15, 15, 15, 15, 15, 15, 15, 15, 15, 15, 15, 15, 15 >>, 0 - 2),
    HexFloat(FALSE, << 0, 12, 12, 12, 12, 12, 12, 12, 12, 12, 12, 12, 12 >>, 1) }
\* The longitudes of the centers, as the numbers JSON.parse yields:
\*   -3.1883 = -0x1.981a36e2eb1c4p+1
\*   174.7681 = 0x1.5d894467381d8p+7
\*   -127.80000000000001, the number next below -127.8 = -0x1.ff33333333334p+6
\*   -0.5678 = -0x1.22b6ae7d566cfp-1
\*   0.3 = 0x1.3333333333333p-2
LngDoubles ==
  { HexFloat(TRUE, << 9, 8, 1, 10, 3, 6, 14, 2, 14, 11, 1, 12, 4 >>, 1),
    HexFloat(FALSE, << 5, 13, 8, 9, 4, 4, 6, 7, 3, 8, 1, 13, 8 >>, 7),
    HexFloat(TRUE, << 15, 15, 3, 3, 3, 3, 3, 3, 3, 3, 3, 3, 4 >>, 6),
    HexFloat(TRUE, << 2, 2, 11, 6, 10, 14, 7, 13, 5, 6, 6, 12, 15 >>, 0 - 1),
    HexFloat(FALSE, << 3, 3, 3, 3, 3, 3, 3, 3, 3, 3, 3, 3, 3 >>, 0 - 2) }
MaxBboxRecords == 2
DoubleCenters == { [lat |-> a, lng |-> g] : a \in LatDoubles, g \in LngDoubles }
\* Shards of up to MaxBboxRecords records with different centers, one to a
\* bucket; computeBbox reads the buckets and not their keys, which stand
\* here as numbers.
DoubleShards ==
  UNION { { [b \in 1..n |-> [key |-> b, bucket |-> << [center |-> c[b]] >>]] :
            c \in { d \in [1..n -> DoubleCenters] : \A j, k \in 1..n : d[j] = d[k] => j = k } } :
          n \in 1..MaxBboxRecords }

InitDouble ==
  /\ probe \in { [fn |-> "computeBboxDouble", zones |-> z, called |-> FALSE, result |-> NoZone] :
                 z \in DoubleShards }
  /\ commits = << EmptyTree >>
  /\ branches = [q \in {} |-> NoFile]
  /\ pulls = << >>
  /\ issues = << >>
  /\ run = << >>
  /\ uuids = 0
  /\ config = AutoMergeOn
  /\ maxActive = 0

\* part_002 line 44: bbox: computeBbox(data.zones).
CallComputeBboxDouble ==
  /\ probe.fn = "computeBboxDouble" /\ ~probe.called
  /\ probe' = [probe EXCEPT !.called = TRUE, !.result = computeBboxDouble(probe.zones)]
  /\ UNCHANGED << commits, branches, pulls, issues, run, uuids, config, maxActive >>

NextDouble == CallComputeBboxDouble
SpecDouble == InitDouble /\ [][NextDouble]_vars

\* C30: for a shard with at least one record, the box computeBbox returns
\* contains the center of every record: south <= lat <= north and
\* west <= lng <= east.
C30_BboxContainsEveryCenter ==
  (probe.fn = "computeBboxDouble" /\ probe.called) =>
    LET records == Flatten(probe.zones)
    IN \A n \in 1..Len(records) :
         /\ DLeq(probe.result.south, records[n].center.lat)
         /\ DLeq(records[n].center.lat, probe.result.north)
         /\ DLeq(probe.result.west, records[n].center.lng)
         /\ DLeq(records[n].center.lng, probe.result.east)

\* ------------------------------------------------------------- re-runs
\* How often the workflow is run again for one issue.
MaxReruns == 1
\* The internal-error comments of an issue: one for each failed run.
Failures(i) ==
  { n \in 1..Len(issues[i].comments) : issues[i].comments[n].kind = "internal" }
\* Lines 153-163: the workflow is dispatched again for the issue of a run
\* that failed; the run starts over with the issue as the failed run left it.
Rerun(i) ==
  /\ run[i].pc = "done" /\ run[i].failed
  /\ Cardinality(Active) < maxActive
  /\ Cardinality(Failures(i)) <= MaxReruns
  /\ Step(i, FreshRun)
  /\ UNCHANGED << commits, branches, pulls, issues, uuids, config, maxActive, probe >>

\* The commit (301, 311, 558) or pulls.create (322, 569) is rejected: the
\* run fails with its branch created.
BranchedFault(i) == run[i].pc \in { "commit", "createPr" } /\ ApiFault(i)

NextRerun ==
  \/ Next /\ Len(issues') <= MaxFaultyIssues
  \/ \E i \in Runs : BranchedFault(i)
  \/ \E i \in Runs : Rerun(i)
\* One run at a time; a run may fail after it created its branch, and a
\* failed run may be started again.
SpecRerun == Init /\ [][NextRerun]_vars

\* A run of an issue that an earlier run has failed on.
IsRerun(i) == Failures(i) # {} /\ run[i].pc # "start" /\ ~run[i].failed

\* C31: a re-run for an issue whose earlier run failed does not fail at
\* the creation of its branch because the branch exists: when it comes to
\* createRef the branch of the earlier run is gone, and the branch it
\* creates is cut at the current head of the target branch and holds,
\* after the commit, the target's tree with the run's shard file.
C31_RerunCutsTheBranchAnew ==
  \A i \in Runs :
    /\ run[i].msg # [kind |-> "internal", message |-> "Reference already exists"]
    /\ (IsRerun(i) /\ run[i].pc = "createRef") => BranchName(i) \notin DOMAIN branches
    /\ (IsRerun(i) /\ run[i].pc = "commit") =>
         /\ BranchName(i) \in DOMAIN branches
         /\ branches[BranchName(i)] = [base |-> Len(commits), tree |-> Head_]
    /\ (IsRerun(i) /\ run[i].pc = "createPr") =>
         /\ branches[BranchName(i)].base = Len(commits)
         /\ branches[BranchName(i)].tree =
              PutFile(Head_, run[i].filePath, run[i].existingContent)
\* The first run of issue 1 failed when it opened its pull request and
\* left its branch at the first commit; the target has moved on since,
\* and the re-run has committed to a branch cut at the new head.
C31_Witness ==
  /\ Len(issues) = 2
  /\ IsRerun(1) /\ run[1].pc = "createPr"
  /\ issues[1].comments = << [kind |-> "internal", message |-> "createPr"] >>
  /\ WasMerged(2)
  /\ branches[BranchName(1)].base = Len(commits)
  /\ Len(commits) >= 2

\* ------------------------------------------- any API call may be rejected
\* Line 179: addLabel('status:processing') is rejected; the catch block
\* takes over before the body is looked at.
StartFault(i) ==
  /\ run[i].pc = "start"
  /\ Step(i, Throw(run[i], "addLabel"))
  /\ UNCHANGED << commits, branches, pulls, issues, uuids, config, maxActive, probe >>

\* addComment, addLabel or closeIssue is rejected.  Inside the try
\* (lines 178-373, 403-606) the catch block takes over; inside the catch
\* block (lines 375-379, 608-612) the rejection leaves the function.
ReportFault(i) ==
  /\ run[i].pc \in { "comment", "label", "close" }
  /\ Step(i, IF run[i].failed THEN [run[i] EXCEPT !.pc = "done"]
             ELSE Throw(run[i], run[i].pc))
  /\ UNCHANGED << commits, branches, pulls, issues, uuids, config, maxActive, probe >>

\* Lines 334-338, 343-349 and 581-585: a read of config/settings.json or of
\* config/auto-merge-emails.json is rejected; the catch ignores it.
ConfigFault(i) ==
  LET r == run[i]
  IN /\ r.pc \in { "getSettings", "getEmails" }
     /\ Step(i, IF r.pc = "getSettings" /\ issues[i].kind = "submission"
                   /\ issues[i].email # "none"
                  THEN [r EXCEPT !.pc = "getEmails"]
                  ELSE ForReview(r))
     /\ UNCHANGED << commits, branches, pulls, issues, uuids, config, maxActive, probe >>

NextAnyFault ==
  \/ NextFaulty
  \/ \E i \in Runs : StartFault(i)
  \/ \E i \in Runs : ReportFault(i)
  \/ \E i \in Runs : ConfigFault(i)
\* One run at a time, any of whose API calls may be rejected.
SpecAnyFault == Init /\ [][NextAnyFault]_vars

\* C32: a run applies at most one of the labels status:invalid,
\* status:duplicate, status:completed and status:error to its issue,
\* whichever of its API calls are rejected, and it applies
\* status:completed only if it created a pull request.
C32_OneTerminalLabel ==
  \A i \in Runs :
    /\ Cardinality(issues[i].labels \cap Terminal) <= 1
    /\ "status:completed" \in issues[i].labels => run[i].pr # 0
====
